---- MODULE Spec2Model ----
(***************************************************************************)
(* A model of the Email Productivity Agent's core: the pattern-matching    *)
(* engine of utils/llm_services.py, the EmailProcessor of                  *)
(* utils/email_processor.py that feeds it, and the prompt store of         *)
(* utils/prompt_manager.py.                                                *)
(*                                                                         *)
(* Texts are Python str values.  They are kept in the state as TLA+        *)
(* strings and worked on as tuples of one-character strings (Chars), so    *)
(* that substring search, regular expressions, str.lower, str.strip,       *)
(* str.title and the JSON encoding are computed character by character.    *)
(***************************************************************************)
EXTENDS Integers, Sequences, FiniteSets, TLC

VARIABLES
    file,    \* data/prompts.json: whether it exists, and its text
    cache,   \* st.session_state.prompts: whether it is set, and the prompt set
    pm,      \* a PromptManager has been constructed
    email,   \* the email record handed to the matchers
    last,    \* the last operation: its name, arguments and outcome
    inbox,   \* st.session_state.emails: the collection of email records
    selected,\* the position in inbox of the selected email (0: none)
    runs     \* the number of calls of EmailProcessor.extract_actions so far

vars == <<file, cache, pm, email, last, inbox, selected, runs>>

\* the state of the Email Agent page
agent == <<inbox, selected, runs>>

(***************************************************************************)
(* Characters and strings                                                  *)
(***************************************************************************)
Chars(s) == [i \in 1..Len(s) |-> SubSeq(s, i, i)]

RECURSIVE StrRange(_, _, _)
StrRange(t, lo, hi) ==
    IF lo > hi THEN ""
    ELSE IF lo = hi THEN t[lo]
    ELSE LET mid == (lo + hi) \div 2
         IN  StrRange(t, lo, mid) \o StrRange(t, mid + 1, hi)

\* the str whose characters are the tuple t
Str(t) == StrRange(t, 1, Len(t))

RECURSIVE FlatRange(_, _, _)
FlatRange(f, lo, hi) ==
    IF lo > hi THEN <<>>
    ELSE IF lo = hi THEN f[lo]
    ELSE LET mid == (lo + hi) \div 2
         IN  FlatRange(f, lo, mid) \o FlatRange(f, mid + 1, hi)

\* "".join(f) for a tuple f of character tuples
Flat(f) == FlatRange(f, 1, Len(f))

\* the cased letters of the model's texts
UpperLetters == Chars("ABCDEFGHIJKLMNOPQRSTUVWXYZÂ")
LowerLetters == Chars("abcdefghijklmnopqrstuvwxyzâ")
Digits == {"0", "1", "2", "3", "4", "5", "6", "7", "8", "9"}
UpperSet == {UpperLetters[i] : i \in 1..Len(UpperLetters)}
LowerSet == {LowerLetters[i] : i \in 1..Len(LowerLetters)}
ToLower == [c \in UpperSet |-> LowerLetters[CHOOSE i \in 1..Len(UpperLetters) : UpperLetters[i] = c]]
ToUpper == [c \in LowerSet |-> UpperLetters[CHOOSE i \in 1..Len(LowerLetters) : LowerLetters[i] = c]]

LowerChar(c) == IF c \in UpperSet THEN ToLower[c] ELSE c
UpperChar(c) == IF c \in LowerSet THEN ToUpper[c] ELSE c

\* str.lower
Lower(t) == [i \in 1..Len(t) |-> LowerChar(t[i])]

\* the regular expression classes \s, \w and \d
IsSpace(c) == c \in {" ", "\n", "\t", "\r"}
IsWord(c) == c \in UpperSet \cup LowerSet \cup Digits \cup {"_"}
IsDigit(c) == c \in Digits

\* w occurs in t at position i
MatchAt(t, w, i) ==
    /\ i >= 1
    /\ i + Len(w) - 1 <= Len(t)
    /\ \A j \in 1..Len(w) : t[i + j - 1] = w[j]

\* Python's "w in t" on str
Contains(t, w) == \E i \in 1..(Len(t) - Len(w) + 1) : MatchAt(t, w, i)

\* any(word in t for word in words)
AnyIn(words, t) == \E w \in words : Contains(t, Chars(w))

Min(S) == CHOOSE x \in S : \A y \in S : x <= y
Max(S) == CHOOSE x \in S : \A y \in S : x >= y

\* the first position j of lo..hi with P(j) (0 if none)
FirstIn(lo, hi, P(_)) ==
    IF \E j \in lo..hi : P(j)
    THEN CHOOSE j \in lo..hi : P(j) /\ \A k \in lo..(j - 1) : ~P(k)
    ELSE 0

\* the last position j of lo..hi with P(j) (0 if none)
LastIn(lo, hi, P(_)) ==
    IF \E j \in lo..hi : P(j)
    THEN hi - (CHOOSE r \in 0..(hi - lo) : P(hi - r) /\ \A k \in 0..(r - 1) : ~P(hi - k))
    ELSE 0

\* the length of the run of characters of class Is(_) that starts at t[p]
RunLen(t, p, Is(_)) ==
    CHOOSE r \in 0..(Len(t) + 1 - p) :
        /\ \A m \in p..(p + r - 1) : Is(t[m])
        /\ p + r > Len(t) \/ ~Is(t[p + r])

\* the first position >= g of a character of stops (0 if none)
FirstOf(t, g, stops) == FirstIn(g, Len(t), LAMBDA j : t[j] \in stops)

(***************************************************************************)
(* JSON text, as json.dump / json.dumps write it and json.load / json.loads*)
(* read it (strings, objects and arrays: the values this program stores).  *)
(* An object is a function from key strings to values; dump writes its     *)
(* members in the order keyOrder gives.                                    *)
(***************************************************************************)
EmptyMap == <<>>

\* the characters outside ASCII that the texts of the model use, with their
\* code points as json writes them
NonAscii == ("â" :> "00e2") @@ ("Â" :> "00c2") @@ ("€" :> "20ac") @@ ("¢" :> "00a2")

\* py_encode_basestring_ascii: the escapes of a JSON string (ensure_ascii)
EscapeChar(c) ==
    CASE c = "\"" -> <<"\\", "\"">>
      [] c = "\\" -> <<"\\", "\\">>
      [] c = "\n" -> <<"\\", "n">>
      [] c = "\r" -> <<"\\", "r">>
      [] c = "\t" -> <<"\\", "t">>
      [] c \in DOMAIN NonAscii -> <<"\\", "u">> \o Chars(NonAscii[c])
      [] OTHER -> <<c>>

JsonString(s) ==
    LET t == Chars(s)
    IN  <<"\"">> \o Flat([i \in 1..Len(t) |-> EscapeChar(t[i])]) \o <<"\"">>

\* the members of an all-string object, separated by sep, each "key": "value"
JsonMembers(m, keyOrder, sep) ==
    LET keys == SelectSeq(keyOrder, LAMBDA k : k \in DOMAIN m)
    IN  Flat([i \in 1..Len(keys) |->
                (IF i > 1 THEN sep ELSE <<>>)
                \o JsonString(keys[i]) \o Chars(": ") \o JsonString(m[keys[i]])])

\* json.dump(prompts, f, indent=2)
JsonDumpIndent(m, keyOrder) ==
    IF DOMAIN m = {} THEN "{}"
    ELSE Str(Chars("{\n  ") \o JsonMembers(m, keyOrder, Chars(",\n  ")) \o Chars("\n}"))

IsJsonSpace(c) == c \in {" ", "\n", "\r", "\t"}

\* the first position >= i of t that is not JSON whitespace (Len(t) + 1 if none)
SkipWs(t, i) == i + RunLen(t, i, IsJsonSpace)

\* the number of consecutive backslashes of t that end at position j, from lo on
BackslashRun(t, lo, j) ==
    CHOOSE r \in 0..(j - lo + 1) :
        /\ \A m \in (j - r + 1)..j : t[m] = "\\"
        /\ r = j - lo + 1 \/ t[j - r] # "\\"

\* the escapes json.loads reads, but for \b and \f, whose characters no text of
\* the model holds
SimpleEscapes == {"\"", "\\", "/", "n", "r", "t"}

Unescape(c) ==
    CASE c = "n" -> "\n"
      [] c = "r" -> "\r"
      [] c = "t" -> "\t"
      [] OTHER -> c

\* the character of a \uXXXX escape, "" for a code the model has no character for
CharOfCode(code) ==
    LET S == {c \in DOMAIN NonAscii : Chars(NonAscii[c]) = Lower(code)}
    IN  IF S = {} THEN "" ELSE CHOOSE c \in S : TRUE

ParseFail(i) == [ok |-> FALSE, val |-> "", pos |-> i]

\* The text of a JSON string from the characters raw between its quotes;
\* intro[k] tells that raw[k] is a backslash that starts an escape.  Control
\* characters and unknown escapes are errors (json.loads is strict).
DecodeString(raw, intro, i, next) ==
    LET IsU(k) == k >= 1 /\ intro[k] /\ raw[k + 1] = "u"
        Code(k) == SubSeq(raw, k + 2, k + 5)
        InCode(x) == \E k \in (x - 5)..(x - 2) : IsU(k)
        Decoded(kept) ==
            Str([x \in 1..Len(kept) |->
                    IF IsU(kept[x] - 1) THEN CharOfCode(Code(kept[x] - 1))
                    ELSE IF kept[x] > 1 /\ intro[kept[x] - 1] THEN Unescape(raw[kept[x]])
                    ELSE raw[kept[x]]])
    IN  IF \E k \in 1..Len(raw) :
               \/ raw[k] \in {"\n", "\r", "\t"}
               \/ intro[k] /\ ~IsU(k) /\ raw[k + 1] \notin SimpleEscapes
               \/ IsU(k) /\ (k + 5 > Len(raw) \/ CharOfCode(Code(k)) = "")
        THEN ParseFail(i)
        ELSE [ok |-> TRUE,
              val |-> Decoded(SelectSeq([k \in 1..Len(raw) |-> k],
                                        LAMBDA k : ~intro[k] /\ ~InCode(k))),
              pos |-> next]

\* A JSON string that opens at t[i] = '"': [ok, val, pos], pos the position
\* after the closing quote, which is the first quote that an even number of
\* backslashes precedes.
ParseString(t, i) ==
    LET Quoted(raw, next) ==
            DecodeString(raw, [k \in 1..Len(raw) |->
                                  raw[k] = "\\" /\ BackslashRun(raw, 1, k) % 2 = 1], i, next)
        Closed(j) ==
            IF i > Len(t) \/ t[i] # "\"" \/ j = 0 THEN ParseFail(i)
            ELSE Quoted(SubSeq(t, i + 1, j - 1), j + 1)
    IN  Closed(FirstIn(i + 1, Len(t),
                       LAMBDA q : t[q] = "\"" /\ BackslashRun(t, i + 1, q - 1) % 2 = 0))

RECURSIVE ParseValue(_, _), ParseMembers(_, _, _), ParseElements(_, _, _)

\* the members of an object after '{', acc the members read so far
ParseMembers(t, i, acc) ==
    LET AfterValue(k, v, e) ==
            IF ~v.ok \/ e > Len(t) THEN ParseFail(i)
            ELSE IF t[e] = "}" THEN [ok |-> TRUE, val |-> (k.val :> v.val) @@ acc, pos |-> e + 1]
            ELSE IF t[e] = "," THEN ParseMembers(t, e + 1, (k.val :> v.val) @@ acc)
            ELSE ParseFail(i)
        Value(k, v) == AfterValue(k, v, SkipWs(t, v.pos))
        AfterKey(k, c) ==
            IF ~k.ok \/ c > Len(t) \/ t[c] # ":" THEN ParseFail(i)
            ELSE Value(k, ParseValue(t, SkipWs(t, c + 1)))
        Key(k) == AfterKey(k, SkipWs(t, k.pos))
    IN  Key(ParseString(t, SkipWs(t, i)))

\* the elements of an array after '[', acc the elements read so far
ParseElements(t, i, acc) ==
    LET AfterValue(v, e) ==
            IF ~v.ok \/ e > Len(t) THEN ParseFail(i)
            ELSE IF t[e] = "]" THEN [ok |-> TRUE, val |-> Append(acc, v.val), pos |-> e + 1]
            ELSE IF t[e] = "," THEN ParseElements(t, e + 1, Append(acc, v.val))
            ELSE ParseFail(i)
        Value(v) == AfterValue(v, SkipWs(t, v.pos))
    IN  Value(ParseValue(t, SkipWs(t, i)))

ParseValue(t, i) ==
    LET Open(n, close) == n <= Len(t) /\ t[n] = close
    IN  IF i > Len(t) THEN ParseFail(i)
        ELSE IF t[i] = "\"" THEN ParseString(t, i)
        ELSE IF t[i] = "{" THEN
            IF Open(SkipWs(t, i + 1), "}")
            THEN [ok |-> TRUE, val |-> EmptyMap, pos |-> SkipWs(t, i + 1) + 1]
            ELSE ParseMembers(t, i + 1, EmptyMap)
        ELSE IF t[i] = "[" THEN
            IF Open(SkipWs(t, i + 1), "]")
            THEN [ok |-> TRUE, val |-> <<>>, pos |-> SkipWs(t, i + 1) + 1]
            ELSE ParseElements(t, i + 1, <<>>)
        ELSE ParseFail(i)

\* json.loads(text): [ok, val]; ok = FALSE stands for the JSONDecodeError
JsonLoads(text) ==
    LET Whole(t, v) ==
            IF v.ok /\ SkipWs(t, v.pos) = Len(t) + 1
            THEN [ok |-> TRUE, val |-> v.val]
            ELSE [ok |-> FALSE, val |-> EmptyMap]
        Of(t) == Whole(t, ParseValue(t, SkipWs(t, 1)))
    IN  Of(Chars(text))

(***************************************************************************)
(* FreeLLMService._categorize_email                                        *)
(***************************************************************************)
urgent_words == {"urgent", "asap", "immediately", "deadline", "important", "critical"}
action_words == {"please", "need", "request", "action required", "todo", "task", "required", "must"}
newsletter_words == {"newsletter", "digest", "weekly update", "monthly report", "subscription"}
spam_words == {"promotion", "special offer", "discount", "buy now", "limited time", "click here"}
internal_senders == {"@company.com", "@corp.com", "manager", "hr@"}
newsletter_senders == {"newsletter@", "digest@", "updates@"}

\* text = (subject + ' ' + body).lower()
CategorizeText(e) == Lower(Chars(e.subject) \o <<" ">> \o Chars(e.body))

\* _categorize_email with the action lexicon tested before the urgency lexicon
categorize_action_first(e) ==
    IF AnyIn(action_words, CategorizeText(e)) THEN "To-Do"
    ELSE IF AnyIn(urgent_words, CategorizeText(e)) THEN "Important"
    ELSE IF AnyIn(newsletter_words, CategorizeText(e)) THEN "Newsletter"
    ELSE IF AnyIn(spam_words, CategorizeText(e)) THEN "Spam"
    ELSE IF AnyIn(internal_senders, Lower(Chars(e.sender))) THEN "Important"
    ELSE IF AnyIn(newsletter_senders, Lower(Chars(e.sender))) THEN "Newsletter"
    ELSE "Important"

\* _categorize_email with the spam lexicon tested before the newsletter lexicon
categorize_spam_first(e) ==
    IF AnyIn(urgent_words, CategorizeText(e)) THEN "Important"
    ELSE IF AnyIn(action_words, CategorizeText(e)) THEN "To-Do"
    ELSE IF AnyIn(spam_words, CategorizeText(e)) THEN "Spam"
    ELSE IF AnyIn(newsletter_words, CategorizeText(e)) THEN "Newsletter"
    ELSE IF AnyIn(internal_senders, Lower(Chars(e.sender))) THEN "Important"
    ELSE IF AnyIn(newsletter_senders, Lower(Chars(e.sender))) THEN "Newsletter"
    ELSE "Important"

LLM_categorize_email(e) ==
    LET Label(text, sender) ==
            IF AnyIn(urgent_words, text) THEN "Important"
            ELSE IF AnyIn(action_words, text) THEN "To-Do"
            ELSE IF AnyIn(newsletter_words, text) THEN "Newsletter"
            ELSE IF AnyIn(spam_words, text) THEN "Spam"
            ELSE IF AnyIn(internal_senders, sender) THEN "Important"
            ELSE IF AnyIn(newsletter_senders, sender) THEN "Newsletter"
            ELSE "Important"
    IN  Label(CategorizeText(e), Lower(Chars(e.sender)))

(***************************************************************************)
(* The regular expressions of FreeLLMService._extract_actions.  A match is *)
(* [from, to, g1, g2]: the span matched and the span of group 1; findall   *)
(* returns the group-1 texts of the non-overlapping leftmost matches.      *)
(***************************************************************************)
Terminators == {".", "!", "?"}
BulletChars == {"-", "â", "€", "¢", "*"}
NoMatch == [from |-> 0, to |-> 0, g1 |-> 0, g2 |-> 0]

\* kw\s+([^.!?]+[.!?]) tried at position i, kw matched ignoring case (u is
\* t lowered).  \s+ is greedy and gives characters back until the group has
\* one character before its terminator: p is the position after kw, k the
\* length of the run of \s there, T the first terminator after the run.
ClauseMatchAt(t, u, kw, i) ==
    LET Matched(k, T, starts) ==
            IF MatchAt(u, kw, i) /\ k >= 1 /\ T > 0 /\ starts # {}
            THEN [from |-> i, to |-> T, g1 |-> Max(starts), g2 |-> T]
            ELSE NoMatch
        Ending(p, k, T) == Matched(k, T, {g \in (p + 1)..(p + k) : g < T})
        Spaces(p, k) == Ending(p, k, FirstOf(t, p + k, Terminators))
    IN  Spaces(i + Len(kw), RunLen(t, i + Len(kw), IsSpace))

\* (?:kw1|kw2|...)\s+([^.!?]+[.!?]) tried at position i: the first alternative
\* (in the order of kws) with which the rest matches
ClauseAt(t, u, kws, i) ==
    LET Pick(ms, a) == IF a = 0 THEN NoMatch ELSE ms[a]
        Alternatives(ms) == Pick(ms, FirstIn(1, Len(ms), LAMBDA a : ms[a].from > 0))
    IN  Alternatives([a \in 1..Len(kws) |-> ClauseMatchAt(t, u, Chars(kws[a]), i)])

\* [-â€¢*]\s*([^\n.!?]+[.!?]) tried at position i.  The group may not hold a
\* newline; \s* is greedy and gives characters back likewise: stop[g] is the
\* first terminator or newline from g on.
BulletAt(t, u, i) ==
    LET Group(stop, g) == [from |-> i, to |-> stop[g], g1 |-> g, g2 |-> stop[g]]
        Matched(stop, starts) ==
            IF starts # {} THEN Group(stop, Max(starts)) ELSE NoMatch
        Stops(stop) ==
            Matched(stop, {g \in DOMAIN stop : stop[g] > g /\ t[stop[g]] \in Terminators})
        Spaces(p, k) ==
            Stops([g \in p..(p + k) |-> FirstOf(t, g, Terminators \cup {"\n"})])
    IN  IF i <= Len(t) /\ t[i] \in BulletChars
        THEN Spaces(i + 1, RunLen(t, i + 1, IsSpace))
        ELSE NoMatch

\* re.findall from position pos on: the group-1 texts, in order of occurrence
RECURSIVE FindAll(_, _, _, _)
FindAll(t, u, At(_, _, _), pos) ==
    LET Rest(m) == <<SubSeq(t, m.g1, m.g2)>> \o FindAll(t, u, At, m.to + 1)
        From(ms, first) == IF first = 0 THEN <<>> ELSE Rest(ms[first])
        Matches(ms) == From(ms, FirstIn(pos, Len(t), LAMBDA i : ms[i].from > 0))
    IN  Matches([i \in pos..Len(t) |-> At(t, u, i)])

PleaseAt(t, u, i) == ClauseAt(t, u, <<"please">>, i)
NeedAt(t, u, i) == ClauseAt(t, u, <<"need to", "should", "must">>, i)

\* the three sweeps of _extract_actions
please_matches(t) == FindAll(t, Lower(t), PleaseAt, 1)
need_matches(t) == FindAll(t, Lower(t), NeedAt, 1)
bullet_matches(t) == FindAll(t, t, BulletAt, 1)

\* str.strip
Strip(t) ==
    LET Cut(first) ==
            IF first = 0 THEN <<>>
            ELSE SubSeq(t, first, LastIn(1, Len(t), LAMBDA i : ~IsSpace(t[i])))
    IN  Cut(FirstIn(1, Len(t), LAMBDA i : ~IsSpace(t[i])))

\* str.title: a letter after a letter is lowered, every other letter is raised
Title(t) ==
    [i \in 1..Len(t) |->
        IF i > 1 /\ t[i - 1] \in UpperSet \cup LowerSet
        THEN LowerChar(t[i]) ELSE UpperChar(t[i])]

\* FreeLLMService._clean_task_text
clean_task_text(t) ==
    LET Capitalized(s) ==
            IF Len(s) > 0 /\ s[1] \in LowerSet
            THEN <<UpperChar(s[1])>> \o SubSeq(s, 2, Len(s))
            ELSE s
    IN  Capitalized(Strip(t))

\* _determine_priority with the low-priority phrases tested first
determine_priority_low_first(t) ==
    LET Of(text_lower) ==
            IF AnyIn({"when possible", "at your convenience", "no rush"}, text_lower) THEN "low"
            ELSE IF AnyIn({"urgent", "asap", "immediately", "critical"}, text_lower) THEN "high"
            ELSE "medium"
    IN  Of(Lower(t))

\* FreeLLMService._determine_priority
determine_priority(t) ==
    LET Of(text_lower) ==
            IF AnyIn({"urgent", "asap", "immediately", "critical"}, text_lower) THEN "high"
            ELSE IF AnyIn({"when possible", "at your convenience", "no rush"}, text_lower) THEN "low"
            ELSE "medium"
    IN  Of(Lower(t))

(***************************************************************************)
(* The deadline patterns.  A pattern is a tuple of elements: <<"lit", w>>  *)
(* a literal, <<"s+">>, <<"w+">> a greedy run of \s or \w, <<"d12">> the   *)
(* greedy \d{1,2}, <<"(">> and <<")">> the bounds of group 1.  In every    *)
(* pattern below a run is followed by an element that none of the run's    *)
(* characters can start, so the greedy match is the only one.              *)
(***************************************************************************)
RECURSIVE SeqMatch(_, _, _, _, _, _, _)
\* the elements of pat from the n-th on, matched from position i of t (t is
\* the lowered text when the match ignores case)
SeqMatch(t, pat, ignorecase, n, i, g1, g2) ==
    LET Lit(w) ==
            IF MatchAt(t, w, i)
            THEN SeqMatch(t, pat, ignorecase, n + 1, i + Len(w), g1, g2)
            ELSE NoMatch
        Run(k, most) ==
            IF k >= 1
            THEN SeqMatch(t, pat, ignorecase, n + 1, i + (IF k > most THEN most ELSE k), g1, g2)
            ELSE NoMatch
        Class(c) == IF pat[n][1] = "s+" THEN IsSpace(c)
                    ELSE IF pat[n][1] = "w+" THEN IsWord(c)
                    ELSE IsDigit(c)
    IN  IF n > Len(pat) THEN [from |-> 1, to |-> i - 1, g1 |-> g1, g2 |-> g2]
        ELSE IF pat[n][1] = "lit"
             THEN Lit(IF ignorecase THEN Lower(Chars(pat[n][2])) ELSE Chars(pat[n][2]))
        ELSE IF pat[n][1] = "(" THEN SeqMatch(t, pat, ignorecase, n + 1, i, i, g2)
        ELSE IF pat[n][1] = ")" THEN SeqMatch(t, pat, ignorecase, n + 1, i, g1, i - 1)
        ELSE Run(RunLen(t, i, Class), IF pat[n][1] = "d12" THEN 2 ELSE Len(t))

\* re.search(pat, t): the leftmost match, [from, to, g1, g2] (g1 = 0: no group)
Search(t, pat, ignorecase) ==
    LET Found(ms, first) == IF first = 0 THEN NoMatch ELSE [ms[first] EXCEPT !.from = first]
        Matches(ms) == Found(ms, FirstIn(1, Len(ms), LAMBDA i : ms[i].from > 0))
        In(u) == Matches([i \in 1..Len(u) |-> SeqMatch(u, pat, ignorecase, 1, i, 0, 0)])
    IN  In(IF ignorecase THEN Lower(t) ELSE t)

WS == <<"s+">>
DateGroup == <<<<"(">>, <<"w+">>, WS, <<"d12">>, <<")">>>>

\* the patterns of FreeLLMService._extract_deadline, in order
deadline_patterns ==
    << <<<<"lit", "by">>, WS>> \o DateGroup,
       <<<<"lit", "due">>, WS>> \o DateGroup,
       <<<<"lit", "deadline">>, WS>> \o DateGroup,
       <<<<"lit", "tomorrow">>>>,
       <<<<"lit", "next">>, WS, <<"w+">>>>,
       <<<<"lit", "this">>, WS, <<"w+">>>>,
       <<<<"lit", "by">>, WS, <<"lit", "EOD">>>>,
       <<<<"lit", "by">>, WS, <<"lit", "end">>, WS, <<"lit", "of">>, WS, <<"lit", "day">>>> >>

\* the index of the last pattern of pats that matches t (0 if none)
LastPattern(t, pats, ignorecase) ==
    LET Most(S) == IF S = {} THEN 0 ELSE Max(S)
    IN  Most({n \in 1..Len(pats) : Search(t, pats[n], ignorecase).from > 0})

\* the index of the first pattern of pats that matches t (0 if none)
FirstPattern(t, pats, ignorecase) ==
    LET Least(S) == IF S = {} THEN 0 ELSE Min(S)
    IN  Least({n \in 1..Len(pats) : Search(t, pats[n], ignorecase).from > 0})

\* FreeLLMService._extract_deadline: group 1 if the pattern has one, else the
\* whole match, title-cased
extract_deadline(t) ==
    LET Of(m) == Title(IF m.g1 > 0 THEN SubSeq(t, m.g1, m.g2) ELSE SubSeq(t, m.from, m.to))
        At(n) == IF n = 0 THEN <<>> ELSE Of(Search(t, deadline_patterns[n], TRUE))
    IN  At(FirstPattern(t, deadline_patterns, TRUE))

(***************************************************************************)
(* FreeLLMService._extract_actions: the task list before json.dumps        *)
(***************************************************************************)
MaxTasks == 3

FallbackTask ==
    [task |-> "Review this email for important information", priority |-> "medium", deadline |-> ""]

\* a task of sweep (a) or (b): priority and deadline come from the whole text
ClauseTask(t, match) ==
    [task |-> Str(clean_task_text(match)),
     priority |-> determine_priority(t),
     deadline |-> Str(extract_deadline(t))]

BulletTask(match) ==
    [task |-> Str(clean_task_text(match)), priority |-> "medium", deadline |-> ""]

First(seq, n) == SubSeq(seq, 1, IF Len(seq) < n THEN Len(seq) ELSE n)

\* _extract_actions with the bulleted lines put before the clauses
extract_tasks_bullets_first(body) ==
    LET Limited(tasks) == First(IF tasks = <<>> THEN <<FallbackTask>> ELSE tasks, MaxTasks)
        Swept(t, a, c) ==
            Limited([i \in 1..Len(c) |-> BulletTask(c[i])]
                    \o [i \in 1..Len(a) |-> ClauseTask(t, a[i])])
        Of(t) == Swept(t, please_matches(t) \o need_matches(t), bullet_matches(t))
    IN  Of(Chars(body))

\* tasks[:3] of _extract_actions(email), for the text of email['body']:
\* a the matches of sweeps (a) and then (b), c those of sweep (c)
extract_tasks(body) ==
    LET Limited(tasks) == First(IF tasks = <<>> THEN <<FallbackTask>> ELSE tasks, MaxTasks)
        Swept(t, a, c) ==
            Limited([i \in 1..Len(a) |-> ClauseTask(t, a[i])]
                    \o [i \in 1..Len(c) |-> BulletTask(c[i])])
        Of(t) == Swept(t, please_matches(t) \o need_matches(t), bullet_matches(t))
    IN  Of(Chars(body))

\* json.dumps({"tasks": tasks}): members of a task in the order the code builds them
TaskKeys == <<"task", "priority", "deadline">>

JsonDumpsTasks(tasks) ==
    Str(Chars("{\"tasks\": [")
        \o Flat([i \in 1..Len(tasks) |->
                    (IF i > 1 THEN Chars(", ") ELSE <<>>)
                    \o <<"{">> \o JsonMembers(tasks[i], TaskKeys, Chars(", ")) \o <<"}">>])
        \o Chars("]}"))

\* FreeLLMService._extract_actions
LLM_extract_actions(e) == JsonDumpsTasks(extract_tasks(e.body))

(***************************************************************************)
(* FreeLLMService._summarize_email and _draft_reply                        *)
(***************************************************************************)
topic_phrases ==
    << [words |-> {"meeting", "call", "discuss", "schedule"}, phrase |-> "scheduling or discussion"],
       [words |-> {"report", "document", "review", "submit"}, phrase |-> "document review or submission"],
       [words |-> {"project", "task", "assignment", "work"}, phrase |-> "project work or tasks"],
       [words |-> {"question", "query", "advice", "help"}, phrase |-> "questions or advice needed"] >>

\* _summarize_email that lists the topics in the reverse of the lexicons' order
summarize_topics_reversed(e) ==
    LET Opening(fired) ==
            IF Len(fired) > 0
            THEN "This email about '" \o e.subject \o "' involves "
                 \o Str(Flat([i \in 1..Len(fired) |->
                                 (IF i > 1 THEN Chars(", ") ELSE <<>>)
                                 \o Chars(fired[Len(fired) + 1 - i].phrase)]))
                 \o ". "
            ELSE "This email '" \o e.subject \o "' requires your attention. "
        Of(body) ==
            Opening(SelectSeq(topic_phrases, LAMBDA p : AnyIn(p.words, body)))
            \o (IF AnyIn({"urgent", "asap", "immediately"}, body)
                THEN "It appears to be time-sensitive and should be addressed promptly."
                ELSE "Please review it when you have time.")
    IN  Of(Lower(Chars(e.body)))

LLM_summarize_email(e) ==
    LET Opening(fired) ==
            IF Len(fired) > 0
            THEN "This email about '" \o e.subject \o "' involves "
                 \o Str(Flat([i \in 1..Len(fired) |->
                                 (IF i > 1 THEN Chars(", ") ELSE <<>>) \o Chars(fired[i].phrase)]))
                 \o ". "
            ELSE "This email '" \o e.subject \o "' requires your attention. "
        Of(body) ==
            Opening(SelectSeq(topic_phrases, LAMBDA p : AnyIn(p.words, body)))
            \o (IF AnyIn({"urgent", "asap", "immediately"}, body)
                THEN "It appears to be time-sensitive and should be addressed promptly."
                ELSE "Please review it when you have time.")
    IN  Of(Lower(Chars(e.body)))

SchedulingReply ==
    "Thank you for reaching out about scheduling. \n\nI'd be happy to connect. Please let me know what times work best for you next week.\n\nLooking forward to our discussion."
QuestionReply ==
    "Thank you for your question.\n\nI'll look into this and get back to you with more information shortly.\n\nBest regards"
UrgentReply ==
    "Thank you for your urgent message.\n\nI've received this and will prioritize reviewing it. I'll follow up with you soon.\n\nBest regards"
GenericReply ==
    "Thank you for your email.\n\nI have received your message and will review it shortly. I'll get back to you with a proper response.\n\nBest regards"

\* _draft_reply with the question words tested first
draft_reply_question_first(e) ==
    LET Of(body) ==
            IF AnyIn({"question", "help", "advice"}, body) THEN QuestionReply
            ELSE IF AnyIn({"meeting", "schedule", "call"}, body) THEN SchedulingReply
            ELSE IF AnyIn({"urgent", "asap", "immediately"}, body) THEN UrgentReply
            ELSE GenericReply
    IN  Of(Lower(Chars(e.body)))

\* FreeLLMService._draft_reply
LLM_draft_reply(e) ==
    LET Of(body) ==
            IF AnyIn({"meeting", "schedule", "call"}, body) THEN SchedulingReply
            ELSE IF AnyIn({"question", "help", "advice"}, body) THEN QuestionReply
            ELSE IF AnyIn({"urgent", "asap", "immediately"}, body) THEN UrgentReply
            ELSE GenericReply
    IN  Of(Lower(Chars(e.body)))

(***************************************************************************)
(* FreeLLMService._extract_email_content and _smart_pattern_matcher        *)
(***************************************************************************)
\* re.search(kw + r'\s*([^\n]+)', t, re.IGNORECASE), or with re.DOTALL
\* kw + r'\s*(.+)': group 1 of the leftmost match, or none.  \s* is greedy and
\* gives characters back until the group has a first character: starts[i] is
\* the set of positions the group can start at when kw is matched at i.
FieldSearch(t, kw, dotall) ==
    LET End(nl) == IF dotall \/ nl = 0 THEN Len(t) ELSE nl - 1
        Group(g) == [found |-> TRUE, group |-> SubSeq(t, g, End(FirstOf(t, g, {"\n"})))]
        Found(starts, first) ==
            IF first = 0 THEN [found |-> FALSE, group |-> <<>>]
            ELSE Group(Max(starts[first]))
        Matches(starts) == Found(starts, FirstIn(1, Len(t), LAMBDA i : starts[i] # {}))
        Spaces(p, k) == {g \in p..(p + k) : g <= Len(t) /\ (dotall \/ t[g] # "\n")}
        In(u, w) ==
            Matches([i \in 1..Len(t) |->
                        IF MatchAt(u, w, i)
                        THEN Spaces(i + Len(w), RunLen(t, i + Len(w), IsSpace))
                        ELSE {}])
    IN  In(Lower(t), Lower(Chars(kw)))

\* _extract_email_content(prompt): sender, subject and body as the matchers
\* see them; without a BODY: marker the whole prompt is the body
extract_email_content(prompt) ==
    LET Field(m, default) == IF m.found THEN Str(Strip(m.group)) ELSE default
        Content(match) ==
            [sender |-> match["FROM:"], subject |-> match["SUBJECT:"], body |-> match["BODY:"],
             full_text |-> prompt]
        Of(t) ==
            Content([kw \in {"FROM:", "SUBJECT:", "BODY:"} |->
                        Field(FieldSearch(t, kw, kw = "BODY:"),
                              IF kw = "BODY:" THEN prompt ELSE "")])
    IN  Of(Chars(prompt))

\* which branch of _smart_pattern_matcher a prompt takes
Handler(prompt) ==
    LET Of(prompt_lower) ==
            IF Contains(prompt_lower, Chars("categorize")) THEN "categorize"
            ELSE IF Contains(prompt_lower, Chars("extract")) /\ Contains(prompt_lower, Chars("action"))
                 THEN "extract"
            ELSE IF Contains(prompt_lower, Chars("summarize")) THEN "summarize"
            ELSE IF Contains(prompt_lower, Chars("reply")) \/ Contains(prompt_lower, Chars("draft"))
                 THEN "reply"
            ELSE "none"
    IN  Of(Lower(Chars(prompt)))

\* generate_response(prompt) = _smart_pattern_matcher(prompt)
generate_response(prompt) ==
    LET Dispatch(h, email_content) ==
            CASE h = "categorize" -> LLM_categorize_email(email_content)
              [] h = "extract" -> LLM_extract_actions(email_content)
              [] h = "summarize" -> LLM_summarize_email(email_content)
              [] h = "reply" -> LLM_draft_reply(email_content)
              [] OTHER -> "I've processed your email request successfully."
    IN  Dispatch(Handler(prompt), extract_email_content(prompt))

(***************************************************************************)
(* PromptManager (utils/prompt_manager.py).  The file is [exists, text],   *)
(* the session cache [set, prompts]; an operation yields the new file and  *)
(* cache, what it returns, and whether it reported an error (st.error) or  *)
(* raised.                                                                 *)
(***************************************************************************)
AbsentFile == [exists |-> FALSE, text |-> ""]
TextFile(text) == [exists |-> TRUE, text |-> text]
UnsetCache == [set |-> FALSE, prompts |-> EmptyMap]
Cached(m) == [set |-> TRUE, prompts |-> m]

default_prompts ==
    [categorization |-> "Categorize this email into one of these categories: Important, Newsletter, Spam, To-Do. To-Do emails must include a direct request requiring user action. Respond with only the category name.",
     action_extraction |-> "Extract actionable tasks from this email. Look for requests, deadlines, and required actions. Respond in JSON format with tasks array containing task, deadline, and priority.",
     summarization |-> "Provide a concise 2-3 sentence summary of this email focusing on the main purpose and key points. Highlight any required actions or decisions.",
     auto_reply |-> "Draft a polite and professional email reply. Keep it brief (3-4 sentences max), address the main points, and maintain a helpful tone. Do not make promises you can't keep."]

PromptKeys == {"categorization", "action_extraction", "summarization", "auto_reply"}

\* the order in which a prompt set's keys are written (a dict keeps the order
\* of insertion: the four keys as the code lists them, then any key added)
PromptKeyOrder == <<"categorization", "action_extraction", "summarization", "auto_reply", "notes">>

\* dict.get(key, "")
DictGet(m, key) == IF key \in DOMAIN m THEN m[key] ELSE ""

\* prompts[key] = value
DictSet(m, key, value) == (key :> value) @@ m

\* what json.dump leaves in the file: all of the text, or, when the write
\* fails, the first half of it
Written(m, fault) ==
    LET Left(text) ==
            IF fault = "none" THEN text
            ELSE Str(SubSeq(Chars(text), 1, Len(text) \div 2))
    IN  Left(JsonDumpIndent(m, PromptKeyOrder))

\* load_prompts that, when the file cannot be read, writes the defaults and
\* returns them
load_prompts_fabricating(f, c) ==
    IF f.exists /\ JsonLoads(f.text).ok
    THEN [file |-> f, cache |-> Cached(JsonLoads(f.text).val), ret |-> JsonLoads(f.text).val,
          error |-> FALSE, raised |-> FALSE]
    ELSE [file |-> TextFile(JsonDumpIndent(default_prompts, PromptKeyOrder)),
          cache |-> Cached(default_prompts), ret |-> default_prompts,
          error |-> TRUE, raised |-> FALSE]

\* load_prompts
load_prompts(f, c) ==
    LET Loaded(parsed) ==
            IF parsed.ok
            THEN [file |-> f, cache |-> Cached(parsed.val), ret |-> parsed.val,
                  error |-> FALSE, raised |-> FALSE]
            ELSE [file |-> f, cache |-> c, ret |-> EmptyMap, error |-> TRUE, raised |-> FALSE]
    IN  Loaded(IF f.exists THEN JsonLoads(f.text) ELSE [ok |-> FALSE, val |-> EmptyMap])

\* save_prompts that opens the file to append ('a') instead of to write ('w')
save_prompts_append(f, c, prompts, fault) ==
    IF fault = "none"
    THEN [file |-> TextFile(f.text \o Written(prompts, fault)), cache |-> Cached(prompts),
          ret |-> EmptyMap, error |-> FALSE, raised |-> FALSE]
    ELSE [file |-> f, cache |-> c, ret |-> EmptyMap, error |-> TRUE, raised |-> FALSE]

\* save_prompts(prompts); fault: "none", "open" (open() fails, the file is as
\* it was) or "partial" (the write fails after open() truncated the file)
save_prompts(f, c, prompts, fault) ==
    LET Saved(text) ==
            IF fault = "none"
            THEN [file |-> TextFile(text), cache |-> Cached(prompts),
                  ret |-> EmptyMap, error |-> FALSE, raised |-> FALSE]
            ELSE [file |-> IF fault = "open" THEN f ELSE TextFile(text),
                  cache |-> c, ret |-> EmptyMap, error |-> TRUE, raised |-> FALSE]
    IN  Saved(Written(prompts, fault))

\* st.session_state.get('prompts', self.load_prompts()): the default is
\* evaluated first, so every read of the cache reloads the file
cached_prompts(f, c) ==
    LET Got(l) == [l EXCEPT !.ret = IF l.cache.set THEN l.cache.prompts ELSE l.ret]
    IN  Got(load_prompts(f, c))

\* get_prompt(prompt_type)
get_prompt(f, c, prompt_type) ==
    LET Of(g) == [g EXCEPT !.ret = DictGet(g.ret, prompt_type)]
    IN  Of(cached_prompts(f, c))

\* get_all_prompts
get_all_prompts(f, c) == cached_prompts(f, c)

\* update_prompt(prompt_type, new_prompt): the dict it sets the key in is the
\* cached one (when there is one), which is changed before the save
update_prompt(f, c, prompt_type, new_prompt, fault) ==
    LET Set(g, prompts) ==
            save_prompts(g.file, IF g.cache.set THEN Cached(prompts) ELSE g.cache, prompts, fault)
        In(g) == Set(g, DictSet(g.ret, prompt_type, new_prompt))
    IN  In(cached_prompts(f, c))

\* reset_to_defaults that sets the cached copy and leaves the file as it is
reset_cache_only(f, c, fault) ==
    [file |-> f, cache |-> Cached(default_prompts), ret |-> EmptyMap,
     error |-> FALSE, raised |-> FALSE]

\* reset_to_defaults
reset_to_defaults(f, c, fault) == save_prompts(f, c, default_prompts, fault)

\* _ensure_prompts_file that writes the defaults over a file that exists
ensure_prompts_file_overwriting(f, c, fault) ==
    [file |-> TextFile(Written(default_prompts, "none")), cache |-> c, ret |-> EmptyMap,
     error |-> FALSE, raised |-> FALSE]

\* _ensure_prompts_file: the write is not guarded, a failure raises
ensure_prompts_file(f, c, fault) ==
    LET Created(text) ==
            IF f.exists
            THEN [file |-> f, cache |-> c, ret |-> EmptyMap, error |-> FALSE, raised |-> FALSE]
            ELSE IF fault = "none"
            THEN [file |-> TextFile(text), cache |-> c, ret |-> EmptyMap,
                  error |-> FALSE, raised |-> FALSE]
            ELSE [file |-> IF fault = "open" THEN f ELSE TextFile(text),
                  cache |-> c, ret |-> EmptyMap, error |-> FALSE, raised |-> TRUE]
    IN  Created(Written(default_prompts, fault))

\* PromptManager(): _ensure_prompts_file(), then load_prompts()
PromptManagerInit(f, c, fault) ==
    LET Ensured(e) == IF e.raised THEN e ELSE load_prompts(e.file, e.cache)
    IN  Ensured(ensure_prompts_file(f, c, fault))

(***************************************************************************)
(* EmailProcessor (utils/email_processor.py).  An operation yields         *)
(* [raised, val]: the value returned, or raised = TRUE for an exception    *)
(* that leaves the method.                                                 *)
(***************************************************************************)
Returned(v) == [raised |-> FALSE, val |-> v]
Raised == [raised |-> TRUE, val |-> "exception"]

Indent == "\n        "

\* text.split('\n')
Lines(t) ==
    LET Between(nl) ==
            [j \in 1..(Len(nl) + 1) |->
                SubSeq(t, IF j = 1 THEN 1 ELSE nl[j - 1] + 1,
                          IF j = Len(nl) + 1 THEN Len(t) ELSE nl[j] - 1)]
    IN  Between(SelectSeq([k \in 1..Len(t) |-> k], LAMBDA k : t[k] = "\n"))

SP == <<"lit", " ">>
LineDateGroup == <<<<"(">>, <<"w+">>, SP, <<"d12">>, <<")">>>>

\* the deadline_patterns of _extract_actions_from_text, in order
line_deadline_patterns ==
    << <<<<"lit", "by">>, SP>> \o LineDateGroup,
       <<<<"lit", "due">>, SP>> \o LineDateGroup,
       <<<<"lit", "deadline">>, SP>> \o LineDateGroup,
       <<<<"lit", "tomorrow">>>>,
       <<<<"lit", "next">>, SP, <<"w+">>>> >>

task_keywords == {"task", "action", "need to", "please", "review", "prepare"}

\* a line of the response that _extract_actions_from_text makes a task of
IsTaskLine(line) == Len(line) >= 10 /\ AnyIn(task_keywords, Lower(line))

\* the action of one task line; match.group(1) raises IndexError when the
\* first pattern that matches has no group
LineAction(line) ==
    LET Action(low, deadline) ==
            Returned([task |-> Str(line),
                      priority |-> IF AnyIn({"urgent", "asap", "immediately"}, low) THEN "high"
                                   ELSE IF AnyIn({"when possible", "at your convenience"}, low) THEN "low"
                                   ELSE "medium",
                      deadline |-> deadline])
        Group(low, m) ==
            IF m.g1 = 0 THEN Raised ELSE Action(low, Str(Title(SubSeq(low, m.g1, m.g2))))
        Pattern(low, n) ==
            IF n = 0 THEN Action(low, "")
            ELSE Group(low, Search(low, line_deadline_patterns[n], FALSE))
        Of(low) == Pattern(low, FirstPattern(low, line_deadline_patterns, FALSE))
    IN  Of(Lower(line))

\* EmailProcessor._extract_actions_from_text
extract_actions_from_text(text) ==
    LET Actions(acts) ==
            IF \E j \in 1..Len(acts) : acts[j].raised THEN Raised
            ELSE IF Len(acts) = 0
                 THEN Returned(<<[task |-> "Review this email", priority |-> "medium", deadline |-> ""]>>)
            ELSE Returned([j \in 1..Len(acts) |-> acts[j].val])
        TaskLines(lines) == Actions([j \in 1..Len(lines) |-> LineAction(lines[j])])
        Stripped(all) == TaskLines(SelectSeq([j \in 1..Len(all) |-> Strip(all[j])], IsTaskLine))
    IN  Stripped(Lines(Chars(text)))

\* re.search(r'\{.*\}', response, re.DOTALL).group(): from the first '{' that
\* has a '}' after it to the last '}'
JsonPart(t) ==
    LET Span(open, close) == IF open = 0 \/ close < open THEN <<>> ELSE SubSeq(t, open, close)
    IN  Span(FirstOf(t, 1, {"{"}), LastIn(1, Len(t), LAMBDA j : t[j] = "}"))

\* EmailProcessor._parse_actions_response: the text between the braces starts
\* with '{', so what json.loads returns for it is a dict
parse_actions_response(response) ==
    LET Parsed(data) ==
            IF data.ok
            THEN IF "tasks" \in DOMAIN data.val THEN Returned(data.val["tasks"])
                 ELSE Returned(<<data.val>>)
            ELSE extract_actions_from_text(response)
        Part(part) == Parsed(IF part = <<>> THEN [ok |-> FALSE, val |-> EmptyMap]
                             ELSE JsonLoads(Str(part)))
    IN  Part(JsonPart(Chars(response)))

\* the prompts the four operations send to generate_response
CategorizePrompt(p, e) ==
    p \o "\n\n" \o Indent \o "EMAIL DETAILS:" \o Indent \o "From: " \o e.sender
      \o Indent \o "Subject: " \o e.subject \o Indent \o "Body: " \o e.body \o Indent
ExtractPrompt(p, e) ==
    p \o "\n\n" \o Indent \o "EMAIL CONTENT:" \o Indent \o e.body \o Indent
SummaryPrompt(p, e) ==
    p \o "\n\n" \o Indent \o "FROM: " \o e.sender \o Indent \o "SUBJECT: " \o e.subject
      \o Indent \o "BODY: " \o e.body \o Indent
ReplyPrompt(p, e) ==
    p \o "\n\n" \o Indent \o "ORIGINAL EMAIL:" \o Indent \o "From: " \o e.sender
      \o Indent \o "Subject: " \o e.subject \o Indent \o "Body: " \o e.body \o Indent

\* EmailProcessor.extract_actions(email), p the action_extraction prompt
extract_actions(p, e) == parse_actions_response(generate_response(ExtractPrompt(p, e)))

valid_categories == <<"Important", "Newsletter", "Spam", "To-Do">>

\* EmailProcessor._clean_category_response
clean_category_response(response) ==
    LET Fallback(low) ==
            IF AnyIn({"urgent", "important", "critical"}, low) THEN "Important"
            ELSE IF AnyIn({"newsletter", "digest", "update"}, low) THEN "Newsletter"
            ELSE IF AnyIn({"task", "action", "todo", "to-do", "please"}, low) THEN "To-Do"
            ELSE "Important"
        Named(low, first) == IF first = 0 THEN Fallback(low) ELSE valid_categories[first]
        Of(low) ==
            Named(low, FirstIn(1, Len(valid_categories),
                               LAMBDA j : Contains(low, Lower(Chars(valid_categories[j])))))
    IN  Of(Lower(Chars(response)))

\* EmailProcessor._categorize_email(email), p the categorization prompt
categorize_email(p, e) == clean_category_response(generate_response(CategorizePrompt(p, e)))

\* EmailProcessor.summarize_email(email), p the summarization prompt
summarize_email(p, e) == Str(Strip(Chars(generate_response(SummaryPrompt(p, e)))))

\* EmailProcessor.draft_reply(email), p the auto_reply prompt
draft_reply(p, e) == Str(Strip(Chars(generate_response(ReplyPrompt(p, e)))))

(***************************************************************************)
(* The matchers' specification: an email and a stored prompt set are       *)
(* drawn, and one operation of FreeLLMService or EmailProcessor is applied *)
(* to them.                                                                *)
(***************************************************************************)
MaxFrags == 2

Fragments ==
    << "Please submit the report by Friday. This is urgent.",
       "We need to review the budget by March 12. ",
       "Please call Bob! You must reply tomorrow? - bring notes. ",
       "Weekly newsletter digest, no rush ",
       "Special offer: 50% discount",
       "I needed to categorize it ",
       "Summarize\nSubject: tomorrow\n",
       "hello team",
       "Any question on the project work? " >>

RECURSIVE BodiesOf(_)
\* the bodies made of at most n fragments
BodiesOf(n) ==
    IF n = 0 THEN {""}
    ELSE BodiesOf(n - 1)
         \cup {b \o Fragments[i] : b \in BodiesOf(n - 1), i \in 1..Len(Fragments)}

Bodies == BodiesOf(MaxFrags)
Subjects == {"", "URGENT: budget", "Lunch"}
Senders == {"hr@company.com", "updates@shop.io", "friend@mail.net"}

\* the example email of the Prompt Brain's categorization preview
PreviewEmail ==
    [sender |-> "manager@company.com",
     subject |-> "Urgent: Q4 Report Needed by Friday",
     body |-> "Please prepare the Q4 performance report. We need it by Friday EOD for the board meeting."]

Emails == [sender : Senders, subject : Subjects, body : Bodies] \cup {PreviewEmail}

\* prompt sets a user can have saved from the Prompt Brain page
EditedPrompts == [default_prompts EXCEPT !.action_extraction = "Please extract the action items. You must be brief."]
BlankPrompts == [k \in PromptKeys |-> ""]
StoredPrompts == {default_prompts, EditedPrompts, BlankPrompts}

Init ==
    /\ \E P \in StoredPrompts :
           /\ file = TextFile(JsonDumpIndent(P, PromptKeyOrder))
           /\ cache = Cached(P)
    /\ pm = TRUE
    /\ email \in Emails
    /\ last = [op |-> "init"]
    /\ inbox = <<>> /\ selected = 0 /\ runs = 0

\* FreeLLMService._categorize_email(email)
Categorize ==
    /\ last.op = "init"
    /\ last' = [op |-> "categorize", ret |-> LLM_categorize_email(email)]
    /\ UNCHANGED <<file, cache, pm, email, inbox, selected, runs>>

\* FreeLLMService._extract_actions(email), the tasks of its JSON text
LLMExtract ==
    /\ last.op = "init"
    /\ last' = [op |-> "llm_extract", ret |-> parse_actions_response(LLM_extract_actions(email))]
    /\ UNCHANGED <<file, cache, pm, email, inbox, selected, runs>>

\* EmailProcessor.extract_actions(email)
ExtractActions ==
    /\ last.op = "init"
    /\ \E g \in {get_prompt(file, cache, "action_extraction")} :
           /\ last' = [op |-> "extract_actions", prompt |-> g.ret,
                       ret |-> extract_actions(g.ret, email)]
           /\ cache' = g.cache
    /\ UNCHANGED <<file, pm, email, inbox, selected, runs>>

\* FreeLLMService._summarize_email(email), called twice
Summarize ==
    /\ last.op = "init"
    /\ last' = [op |-> "summarize", ret |-> LLM_summarize_email(email),
                again |-> LLM_summarize_email(email)]
    /\ UNCHANGED <<file, cache, pm, email, inbox, selected, runs>>

\* EmailProcessor._categorize_email(email)
CategorizeEmail ==
    /\ last.op = "init"
    /\ \E g \in {get_prompt(file, cache, "categorization")} :
           /\ last' = [op |-> "categorize_email", prompt |-> g.ret,
                       ret |-> categorize_email(g.ret, email)]
           /\ cache' = g.cache
    /\ UNCHANGED <<file, pm, email, inbox, selected, runs>>

\* EmailProcessor.summarize_email(email)
SummarizeEmail ==
    /\ last.op = "init"
    /\ \E g \in {get_prompt(file, cache, "summarization")} :
           /\ last' = [op |-> "summarize_email", prompt |-> g.ret,
                       ret |-> summarize_email(g.ret, email)]
           /\ cache' = g.cache
    /\ UNCHANGED <<file, pm, email, inbox, selected, runs>>

\* EmailProcessor.draft_reply(email)
DraftReply ==
    /\ last.op = "init"
    /\ \E g \in {get_prompt(file, cache, "auto_reply")} :
           /\ last' = [op |-> "draft_reply", prompt |-> g.ret,
                       ret |-> draft_reply(g.ret, email)]
           /\ cache' = g.cache
    /\ UNCHANGED <<file, pm, email, inbox, selected, runs>>

Next ==
    \/ Categorize \/ LLMExtract \/ ExtractActions
    \/ Summarize \/ CategorizeEmail \/ SummarizeEmail \/ DraftReply

Spec == Init /\ [][Next]_vars

(***************************************************************************)
(* The prompt store's specification: PromptManager objects are constructed *)
(* and their methods called in any order, each write with or without an    *)
(* I/O fault, and the file can be removed from outside the program.        *)
(***************************************************************************)
MaxOps == 4

Faults == {"none", "open", "partial"}

\* a prompt set whose texts need every escape of the JSON encoding
QuotedPrompts ==
    [k \in PromptKeys |-> "Say \"" \o k \o "\":\n\t{a\\b} â€¢ [x], \\\"q"]

\* a mapping with one of the four keys: save_prompts takes any dict
PartialPrompts == ("categorization" :> "Label it.")

\* the prompt sets save_prompts is called with: those the Prompt Brain page
\* saves, and a mapping that lacks keys
SavedSets == {EditedPrompts, QuotedPrompts, PartialPrompts}

\* the keys get_prompt and update_prompt are called with: a key of the set
\* and a key that is not in it
CalledKeys == {"categorization", "notes"}
NewPrompts == {"Label it \"Spam\".\n"}

NoEmail == [sender |-> "", subject |-> "", body |-> ""]

StoreInit ==
    /\ file \in {AbsentFile, TextFile("{\"categorization\": "),
                  TextFile(JsonDumpIndent(default_prompts, PromptKeyOrder)),
                  TextFile(JsonDumpIndent(QuotedPrompts, PromptKeyOrder))}
    /\ cache = UnsetCache
    /\ pm = FALSE
    /\ email = NoEmail
    /\ last = [op |-> "init", key |-> "", arg |-> EmptyMap, fault |-> "none", ok |-> TRUE,
               ret |-> EmptyMap, error |-> FALSE, raised |-> FALSE, n |-> 0, after |-> ""]
    /\ inbox = <<>> /\ selected = 0 /\ runs = 0

\* what a call leaves in last: the call, the outcome r of the operation, the
\* number of calls so far, and the call before it when that one succeeded
Outcome(op, key, arg, fault, r) ==
    [op |-> op, key |-> key, arg |-> arg, fault |-> fault, ok |-> ~r.error /\ ~r.raised,
     ret |-> r.ret, error |-> r.error, raised |-> r.raised, n |-> last.n + 1,
     after |-> IF last.ok THEN last.op ELSE ""]

\* PromptManager()
Construct ==
    /\ last.n < MaxOps
    /\ \E fault \in (IF file.exists THEN {"none"} ELSE Faults) :
           \E r \in {PromptManagerInit(file, cache, fault)} :
               /\ file' = r.file
               /\ cache' = r.cache
               /\ pm' = (pm \/ ~r.raised)
               /\ last' = Outcome("construct", "", EmptyMap, fault, r)
    /\ UNCHANGED <<email, inbox, selected, runs>>

\* load_prompts()
Load ==
    /\ pm /\ last.n < MaxOps
    /\ \E r \in {load_prompts(file, cache)} :
           /\ file' = r.file
           /\ cache' = r.cache
           /\ last' = Outcome("load", "", EmptyMap, "none", r)
    /\ UNCHANGED <<pm, email, inbox, selected, runs>>

\* save_prompts(P)
Save ==
    /\ pm /\ last.n < MaxOps
    /\ \E P \in SavedSets, fault \in Faults :
           \E r \in {save_prompts(file, cache, P, fault)} :
               /\ file' = r.file
               /\ cache' = r.cache
               /\ last' = Outcome("save", "", P, fault, r)
    /\ UNCHANGED <<pm, email, inbox, selected, runs>>

\* get_prompt(key)
Get ==
    /\ pm /\ last.n < MaxOps
    /\ \E key \in CalledKeys :
           \E r \in {get_prompt(file, cache, key)} :
               /\ file' = r.file
               /\ cache' = r.cache
               /\ last' = Outcome("get", key, EmptyMap, "none", r)
    /\ UNCHANGED <<pm, email, inbox, selected, runs>>

\* get_all_prompts()
GetAll ==
    /\ pm /\ last.n < MaxOps
    /\ \E r \in {get_all_prompts(file, cache)} :
           /\ file' = r.file
           /\ cache' = r.cache
           /\ last' = Outcome("get_all", "", EmptyMap, "none", r)
    /\ UNCHANGED <<pm, email, inbox, selected, runs>>

\* update_prompt(key, new_prompt)
Update ==
    /\ pm /\ last.n < MaxOps
    /\ \E key \in CalledKeys, new_prompt \in NewPrompts, fault \in Faults :
           \E r \in {update_prompt(file, cache, key, new_prompt, fault)} :
               /\ file' = r.file
               /\ cache' = r.cache
               /\ last' = Outcome("update", key, (key :> new_prompt), fault, r)
    /\ UNCHANGED <<pm, email, inbox, selected, runs>>

\* reset_to_defaults()
Reset ==
    /\ pm /\ last.n < MaxOps
    /\ \E fault \in Faults :
           \E r \in {reset_to_defaults(file, cache, fault)} :
               /\ file' = r.file
               /\ cache' = r.cache
               /\ last' = Outcome("reset", "", EmptyMap, fault, r)
    /\ UNCHANGED <<pm, email, inbox, selected, runs>>

\* data/prompts.json is deleted from outside the program (the case that
\* _ensure_prompts_file tests for)
FileRemoved ==
    /\ file.exists /\ last.n < MaxOps
    /\ file' = AbsentFile
    /\ last' = [op |-> "remove", key |-> "", arg |-> EmptyMap, fault |-> "none", ok |-> TRUE,
                ret |-> EmptyMap, error |-> FALSE, raised |-> FALSE, n |-> last.n + 1, after |-> ""]
    /\ UNCHANGED <<cache, pm, email, inbox, selected, runs>>

StoreNext ==
    Construct \/ Load \/ Save \/ Get \/ GetAll \/ Update \/ Reset \/ FileRemoved

StoreSpec == StoreInit /\ [][StoreNext]_vars

(***************************************************************************)
(* The response parser's specification: _parse_actions_response is applied *)
(* to a response text of up to MaxLines lines.                              *)
(***************************************************************************)
MaxLines == 2

\* lines of a response: short lines, lines with and without a task keyword,
\* with each kind of deadline, and JSON texts, well-formed and not
ResponseLines ==
    << "",
       "- ok",
       "Nothing to report here at all.",
       "Please review the notes by March 12",
       "ACTION: send the slides, due June 5 asap",
       "We need to meet tomorrow",
       "Please let me know what times work best for you next week.",
       "{\"tasks\": [{\"task\": \"Call Bob\", \"priority\": \"low\", \"deadline\": \"\"}]}",
       "{\"task\": \"Prepare the report\"}",
       "{\"tasks\": [{\"task\": \"Please review" >>

RECURSIVE ResponsesOf(_)
\* the texts of at most n lines (n >= 1)
ResponsesOf(n) ==
    IF n = 1 THEN {ResponseLines[i] : i \in 1..Len(ResponseLines)}
    ELSE ResponsesOf(n - 1)
         \cup {r \o "\n" \o ResponseLines[i] : r \in ResponsesOf(n - 1), i \in 1..Len(ResponseLines)}

Responses == ResponsesOf(MaxLines)

ParseInit ==
    /\ file = AbsentFile
    /\ cache = UnsetCache
    /\ pm = FALSE
    /\ email = NoEmail
    /\ last = [op |-> "init"]
    /\ inbox = <<>> /\ selected = 0 /\ runs = 0

\* EmailProcessor._parse_actions_response(response)
ParseResponse ==
    /\ last.op = "init"
    /\ \E response \in Responses :
           last' = [op |-> "parse", response |-> response,
                    ret |-> parse_actions_response(response)]
    /\ UNCHANGED <<file, cache, pm, email, inbox, selected, runs>>

\* EmailProcessor._extract_actions_from_text(text)
ExtractFromText ==
    /\ last.op = "init"
    /\ \E response \in Responses :
           last' = [op |-> "from_text", response |-> response,
                    ret |-> extract_actions_from_text(response)]
    /\ UNCHANGED <<file, cache, pm, email, inbox, selected, runs>>

ParseNext == ParseResponse \/ ExtractFromText

ParseSpec == ParseInit /\ [][ParseNext]_vars

(***************************************************************************)
(* The Email Agent page (pages/_Email_Agent.py) and the batch operations   *)
(* of EmailProcessor.  An email is a dict: a function from its keys to     *)
(* their values, 'actions' and 'summary' being keys it may lack.  The      *)
(* characters of the page's texts that are not Latin-1 are written by      *)
(* their code points, as <U+2022> for the bullet.                          *)
(***************************************************************************)
\* Python's None as the value of 'category' (it equals no str)
None == "<None>"

RECURSIVE IntStr(_)
\* str(n) for n >= 0
IntStr(n) ==
    IF n < 10 THEN <<"0", "1", "2", "3", "4", "5", "6", "7", "8", "9">>[n + 1]
    ELSE IntStr(n \div 10) \o IntStr(n % 10)

\* str.upper()
Upper(t) == [i \in 1..Len(t) |-> UpperChar(t[i])]

RECURSIVE Remove(_, _)
\* str.replace(w, '')
Remove(t, w) ==
    LET Cut(i) == IF i = 0 THEN t
                  ELSE SubSeq(t, 1, i - 1) \o Remove(SubSeq(t, i + Len(w), Len(t)), w)
    IN  Cut(FirstIn(1, Len(t) - Len(w) + 1, LAMBDA i : MatchAt(t, w, i)))

\* email.get('category'), bool(email.get('actions')), bool(email.get('summary'))
Category(e) == IF "category" \in DOMAIN e THEN e["category"] ELSE None
HasActions(e) == "actions" \in DOMAIN e /\ e["actions"] # <<>>
HasSummary(e) == "summary" \in DOMAIN e /\ e["summary"] # ""

\* the methods the class EmailProcessor defines
EmailProcessorMethods ==
    {"__init__", "process_single_email", "_categorize_email", "_clean_category_response",
     "extract_actions", "_parse_actions_response", "_extract_actions_from_text",
     "summarize_email", "draft_reply", "process_batch_emails", "get_email_stats"}

\* the email as the except branch of process_single_email leaves it
ErrorEmail(e) ==
    ("category" :> "Error") @@ ("actions" :> <<>>) @@ ("summary" :> "Failed to process email") @@ e

\* process_single_email that lets the exception leave the method
process_single_email_unguarded(p, e) ==
    IF "_summarize_email" \notin EmailProcessorMethods THEN Raised
    ELSE Returned(DictSet(e, "category", categorize_email(p, e)))

\* EmailProcessor.process_single_email(email), p the categorization prompt:
\* self._extract_actions and self._summarize_email are looked up on the
\* object, which raises AttributeError for a name the class does not define;
\* the except branch catches it
process_single_email(p, e) ==
    LET Categorized(category) ==
            IF category = "To-Do" /\ "_extract_actions" \notin EmailProcessorMethods
            THEN ErrorEmail(e)
            ELSE IF "_summarize_email" \notin EmailProcessorMethods
            THEN ErrorEmail(e)
            ELSE DictSet(e, "category", category)
    IN  Returned(Categorized(categorize_email(p, e)))

\* EmailProcessor.process_batch_emails(emails): [raised, val], and emails,
\* the collection as the call leaves it (the emails are changed in place)
process_batch_emails(p, emails) ==
    LET Batch(rs, bad) ==
            IF bad = 0
            THEN [raised |-> FALSE, val |-> [i \in 1..Len(rs) |-> rs[i].val],
                  emails |-> [i \in 1..Len(rs) |-> rs[i].val]]
            ELSE [raised |-> TRUE, val |-> "exception",
                  emails |-> [i \in 1..Len(rs) |-> IF i < bad THEN rs[i].val ELSE emails[i]]]
        Each(rs) == Batch(rs, FirstIn(1, Len(rs), LAMBDA i : rs[i].raised))
    IN  Each([i \in 1..Len(emails) |-> process_single_email(p, emails[i])])

stats_keys == {"total", "important", "newsletter", "spam", "todo", "unprocessed"}

\* EmailProcessor.get_email_stats(emails)
get_email_stats(emails) ==
    LET Count(Is(_)) == Cardinality({i \in 1..Len(emails) : Is(Category(emails[i]))})
    IN  [k \in stats_keys |->
            (IF k = "total" THEN Len(emails) ELSE 0)
            + Count(LAMBDA c : c = k)
            + (IF k = "unprocessed" THEN Count(LAMBDA c : c \notin stats_keys) ELSE 0)]

\* process_summary_query(email)
process_summary_query(prompts, e) ==
    "**Summary of '" \o e.subject \o "':**\n\n"
    \o summarize_email(DictGet(prompts, "summarization"), e)

\* the lines of process_action_query for the actions
ActionLines(actions) ==
    Str(Flat([i \in 1..Len(actions) |->
        Chars(IntStr(i) \o ". **"
              \o (IF "task" \in DOMAIN actions[i] THEN actions[i]["task"] ELSE "Task") \o "**")
        \o (IF DictGet(actions[i], "priority") # ""
            THEN Chars(" - Priority: ") \o Upper(Chars(actions[i]["priority"])) ELSE <<>>)
        \o (IF DictGet(actions[i], "deadline") # ""
            THEN Chars(" - Deadline: " \o actions[i]["deadline"]) ELSE <<>>)
        \o <<"\n">>]))

\* process_action_query that also marks the email as read
process_action_query_marking(prompts, e) ==
    LET Rendered(actions) ==
            IF actions # <<>>
            THEN "**Actions from '" \o e.subject \o "':**\n\n" \o ActionLines(actions)
            ELSE "No specific actions found in '" \o e.subject
                 \o "'. This email may be informational only."
        Extracted(x) ==
            IF x.raised THEN [raised |-> TRUE, val |-> "exception", email |-> e, ran |-> TRUE]
            ELSE [raised |-> FALSE, val |-> Rendered(x.val),
                  email |-> DictSet(DictSet(e, "actions", x.val), "read", TRUE), ran |-> TRUE]
    IN  IF HasActions(e)
        THEN [raised |-> FALSE, val |-> Rendered(e["actions"]), email |-> e, ran |-> FALSE]
        ELSE Extracted(extract_actions(DictGet(prompts, "action_extraction"), e))

\* process_action_query(email): [raised, val], email as the call leaves it,
\* and ran: whether extract_actions was called
process_action_query(prompts, e) ==
    LET Rendered(actions) ==
            IF actions # <<>>
            THEN "**Actions from '" \o e.subject \o "':**\n\n" \o ActionLines(actions)
            ELSE "No specific actions found in '" \o e.subject
                 \o "'. This email may be informational only."
        Extracted(x) ==
            IF x.raised THEN [raised |-> TRUE, val |-> "exception", email |-> e, ran |-> TRUE]
            ELSE [raised |-> FALSE, val |-> Rendered(x.val),
                  email |-> DictSet(e, "actions", x.val), ran |-> TRUE]
    IN  IF HasActions(e)
        THEN [raised |-> FALSE, val |-> Rendered(e["actions"]), email |-> e, ran |-> FALSE]
        ELSE Extracted(extract_actions(DictGet(prompts, "action_extraction"), e))

\* process_reply_query(email)
process_reply_query(prompts, e) ==
    "**Draft Reply for '" \o e.subject \o "':**\n\n"
    \o draft_reply(DictGet(prompts, "auto_reply"), e)
    \o "\n\n*Remember to review and edit before sending!*"

\* process_urgent_query that shows every urgent email
urgent_query_uncapped(emails) ==
    LET Shown(urgent) ==
            IF urgent = <<>> THEN "No urgent emails found! Your inbox looks good. <U+1F389>"
            ELSE "**Urgent/Important Emails:**\n\n"
                 \o Str(Flat([i \in 1..Len(urgent) |->
                        Chars("<U+2022> **" \o urgent[i].subject \o "** (From: "
                              \o urgent[i].sender \o ")\n")
                        \o (IF HasSummary(urgent[i])
                            THEN Chars("  ") \o First(Chars(urgent[i]["summary"]), 100)
                                 \o Chars("...\n")
                            ELSE <<>>)
                        \o <<"\n">>]))
    IN  Shown(SelectSeq(emails, LAMBDA e : Category(e) \in {"Important", "To-Do"}))

\* process_urgent_query(emails)
process_urgent_query(emails) ==
    LET Shown(urgent) ==
            IF urgent = <<>> THEN "No urgent emails found! Your inbox looks good. <U+1F389>"
            ELSE "**Urgent/Important Emails:**\n\n"
                 \o Str(Flat([i \in 1..Len(First(urgent, 8)) |->
                        Chars("<U+2022> **" \o urgent[i].subject \o "** (From: "
                              \o urgent[i].sender \o ")\n")
                        \o (IF HasSummary(urgent[i])
                            THEN Chars("  ") \o First(Chars(urgent[i]["summary"]), 100)
                                 \o Chars("...\n")
                            ELSE <<>>)
                        \o <<"\n">>]))
    IN  Shown(SelectSeq(emails, LAMBDA e : Category(e) \in {"Important", "To-Do"}))

\* process_inbox_query(emails)
process_inbox_query(emails) ==
    LET Overview(stats) ==
            "**Inbox Overview:**\n\n"
            \o "<U+2022> <U+1F4E7> Total Emails: " \o IntStr(stats["total"]) \o "\n"
            \o "<U+2022> <U+1F3AF> Important: " \o IntStr(stats["important"]) \o "\n"
            \o "<U+2022> <U+1F4CB> To-Do: " \o IntStr(stats["todo"]) \o "\n"
            \o "<U+2022> <U+1F4F0> Newsletter: " \o IntStr(stats["newsletter"]) \o "\n"
            \o "<U+2022> <U+1F5D1><U+FE0F> Spam: " \o IntStr(stats["spam"]) \o "\n\n"
            \o (IF stats["todo"] > 3
                THEN "<U+1F4A1> You have several action items. Consider prioritizing them!\n"
                ELSE "")
            \o (IF stats["spam"] > 5
                THEN "<U+1F4A1> You have spam emails that can be cleaned up.\n" ELSE "")
            \o (IF stats["important"] = 0 /\ stats["todo"] = 0
                THEN "<U+1F4A1> Your inbox looks quiet! No urgent items.\n" ELSE "")
    IN  Overview(get_email_stats(emails))

\* process_search_query(query, emails)
process_search_query(query, emails) ==
    LET Found(terms, hits) ==
            IF hits = <<>>
            THEN "No emails found matching '" \o Str(terms) \o "'. Try different search terms."
            ELSE "**Found " \o IntStr(Len(hits)) \o " emails matching '" \o Str(terms) \o "':**\n\n"
                 \o Str(Flat([i \in 1..Len(First(hits, 6)) |->
                        Chars("<U+2022> **" \o hits[i].subject \o "** (From: "
                              \o hits[i].sender \o ")\n")
                        \o (IF Category(hits[i]) \notin {None, ""}
                            THEN Chars("  Category: " \o Category(hits[i]) \o "\n") ELSE <<>>)
                        \o <<"\n">>]))
        Terms(terms) ==
            Found(terms, SelectSeq(emails, LAMBDA e :
                \/ Contains(Lower(Chars(e.subject)), terms)
                \/ Contains(Lower(Chars(e.body)), terms)
                \/ Contains(Lower(Chars(e.sender)), terms)))
    IN  Terms(Strip(Remove(Remove(Remove(Lower(Chars(query)), Chars("find")),
                                  Chars("search")), Chars("look for"))))

\* process_general_query(query, selected_email, emails), e the selected
\* email (sel = 0: none)
process_general_query(query, sel, e) ==
    IF sel = 0
    THEN "I can help you analyze your emails! Please load your inbox first or select a specific email to discuss."
    ELSE "**Regarding '" \o e.subject \o "':**\n\n"
         \o generate_response("Answer this question about the email: "
                \o Indent \o "User is asking about this email:"
                \o Indent \o "Subject: " \o e.subject
                \o Indent \o "From: " \o e.sender
                \o Indent \o "Body: " \o e.body
                \o Indent
                \o Indent \o "User's question: " \o query
                \o Indent)

\* the if/elif chain of process_agent_query with the reply test first
route_reply_first(query, sel) ==
    LET Of(q) ==
            IF sel # 0 /\ AnyIn({"reply", "respond", "draft"}, q) THEN "reply"
            ELSE IF sel # 0 /\ AnyIn({"summarize", "summary", "overview"}, q) THEN "summary"
            ELSE IF sel # 0 /\ AnyIn({"task", "action", "todo", "do"}, q) THEN "action"
            ELSE IF AnyIn({"urgent", "important", "priority"}, q) THEN "urgent"
            ELSE IF AnyIn({"all", "inbox", "emails"}, q) THEN "inbox"
            ELSE IF AnyIn({"find", "search", "look for"}, q) THEN "search"
            ELSE "general"
    IN  Of(Lower(Chars(query)))

\* the if/elif chain of process_agent_query: the branch taken (sel = 0: no
\* selected email)
Route(query, sel) ==
    LET Of(q) ==
            IF sel # 0 /\ AnyIn({"summarize", "summary", "overview"}, q) THEN "summary"
            ELSE IF sel # 0 /\ AnyIn({"task", "action", "todo", "do"}, q) THEN "action"
            ELSE IF sel # 0 /\ AnyIn({"reply", "respond", "draft"}, q) THEN "reply"
            ELSE IF AnyIn({"urgent", "important", "priority"}, q) THEN "urgent"
            ELSE IF AnyIn({"all", "inbox", "emails"}, q) THEN "inbox"
            ELSE IF AnyIn({"find", "search", "look for"}, q) THEN "search"
            ELSE "general"
    IN  Of(Lower(Chars(query)))

\* process_agent_query(query, emails, selected_email), the selected email
\* being emails[sel]: [step, raised, val], emails as the call leaves them,
\* ran: whether extract_actions was called, called: the operations of
\* EmailProcessor and FreeLLMService that were called
process_agent_query(prompts, query, emails, sel) ==
    LET Said(step, text, called) ==
            [step |-> step, raised |-> FALSE, val |-> text, emails |-> emails, ran |-> FALSE,
             called |-> called]
        Acted(a) ==
            [step |-> "action", raised |-> a.raised, val |-> a.val,
             emails |-> [emails EXCEPT ![sel] = a.email], ran |-> a.ran,
             called |-> IF a.ran THEN {"extract_actions"} ELSE {}]
        Step(step) ==
            CASE step = "summary" ->
                     Said(step, process_summary_query(prompts, emails[sel]), {"summarize_email"})
              [] step = "action" -> Acted(process_action_query(prompts, emails[sel]))
              [] step = "reply" ->
                     Said(step, process_reply_query(prompts, emails[sel]), {"draft_reply"})
              [] step = "urgent" -> Said(step, process_urgent_query(emails), {})
              [] step = "inbox" -> Said(step, process_inbox_query(emails), {"get_email_stats"})
              [] step = "search" -> Said(step, process_search_query(query, emails), {})
              [] OTHER -> Said(step, process_general_query(query, sel,
                                        IF sel = 0 THEN NoEmail ELSE emails[sel]),
                               IF sel = 0 THEN {} ELSE {"generate_response"})
    IN  Step(Route(query, sel))

(***************************************************************************)
(* The agent's specification: a collection of emails, a selected email and *)
(* a stored prompt set are drawn; the collection is batch-processed and    *)
(* queries are put to the Email Agent, up to MaxSteps operations.          *)
(***************************************************************************)
MaxInbox == 10
MaxSteps == 2

MailBodies ==
    << "hello team",
       "Please summarize the report for the meeting. It is urgent.",
       "Please reply about the call." >>

\* the categories of a collection, position by position (repeated in a
\* cycle): recategorized emails, the mock inbox as it is loaded, and emails
\* that were batch-processed
CategoryCycles ==
    { <<"Important", "Newsletter", "To-Do", "Important", "Spam">>,
      <<"Important", "To-Do">>,
      <<None>>,
      <<"Error">> }

LongSummary ==
    "This email about 'Lunch' involves scheduling or discussion, document review or submission, project work or tasks. Please review it when you have time."

\* the i-th email of the collection with categories cats
Mail(i, cats) ==
    LET Extra(category) ==
            IF category = "Error"
            THEN ("actions" :> <<>>) @@ ("summary" :> "Failed to process email")
            ELSE IF category = "To-Do" /\ Len(cats) = 2 THEN ("summary" :> LongSummary)
            ELSE EmptyMap
        With(category) ==
            [id |-> i, sender |-> "friend@mail.net", subject |-> "Lunch " \o IntStr(i),
             body |-> MailBodies[((i - 1) % Len(MailBodies)) + 1], read |-> FALSE,
             category |-> category]
            @@ Extra(category)
    IN  With(cats[((i - 1) % Len(cats)) + 1])

Inboxes ==
    {[i \in 1..n |-> Mail(i, cats)] : n \in {0, 5, MaxInbox}, cats \in CategoryCycles}

Queries ==
    { "Summarize this email",
      "Give me a summary and draft a reply",
      "What should I do about this?",
      "What tasks are there?",
      "Draft a reply to this",
      "What's urgent in my inbox?",
      "Show all emails",
      "Find all project-related emails",
      "FIND Lunch 1",
      "look for budget",
      "Hello there" }

AgentInit ==
    /\ \E P \in {default_prompts, BlankPrompts} :
           /\ file = TextFile(JsonDumpIndent(P, PromptKeyOrder))
           /\ cache = Cached(P)
    /\ pm = TRUE
    /\ email = NoEmail
    /\ inbox \in Inboxes
    /\ selected \in {s \in 0..3 : s <= Len(inbox)}
    /\ runs = 0
    /\ last = [op |-> "init", n |-> 0]

\* a chat input: process_agent_query(prompt, emails, selected_email)
Query ==
    /\ last.n < MaxSteps
    /\ \E query \in Queries :
           \E g \in {cached_prompts(file, cache)} :
               \E r \in {process_agent_query(g.ret, query, inbox, selected)} :
                   /\ last' = [op |-> "query", n |-> last.n + 1, query |-> query,
                               step |-> r.step, raised |-> r.raised, ret |-> r.val,
                               ran |-> r.ran, called |-> r.called]
                   /\ inbox' = r.emails
                   /\ runs' = IF r.ran THEN runs + 1 ELSE runs
                   /\ cache' = IF r.step \in {"summary", "reply"} \/ r.ran THEN g.cache ELSE cache
    /\ UNCHANGED <<file, pm, email, selected>>

\* process_batch_emails(emails)
ProcessBatch ==
    /\ last.n < MaxSteps
    /\ \E g \in {get_prompt(file, cache, "categorization")} :
           \E r \in {process_batch_emails(g.ret, inbox)} :
               /\ last' = [op |-> "batch", n |-> last.n + 1, query |-> "", step |-> "",
                           raised |-> r.raised, ret |-> r.val, ran |-> FALSE, called |-> {}]
               /\ inbox' = r.emails
               /\ cache' = IF inbox = <<>> THEN cache ELSE g.cache
    /\ UNCHANGED <<file, pm, email, selected, runs>>

AgentNext == Query \/ ProcessBatch

AgentSpec == AgentInit /\ [][AgentNext]_vars

(***************************************************************************)
(* The service's specification: an email is drawn and one operation of     *)
(* FreeLLMService is applied to it: _extract_actions, _draft_reply, or     *)
(* generate_response on the prompt that an EmailProcessor operation builds *)
(* from a stored prompt and the email.                                     *)
(***************************************************************************)
MaxParts == 2

ServiceFragments ==
    << "Please call Bob. Please send it! Please wait? ",
       "Please send it by March 3. ",
       "The report is due March 12. We should talk. ",
       "You must reply tomorrow, it is urgent. ",
       "We need to meet next week, no rush. ",
       "Please finish this week! ",
       "Please file it by EOD. ",
       "Please ship by end of day. ",
       "The deadline June 5 holds. ",
       "- bring notes.\n* book the meeting asap!\n",
       "Any question or advice? ",
       "Do not categorize this. ",
       "Summarize and draft it. ",
       "hello team" >>

RECURSIVE ServiceBodiesOf(_)
\* the bodies made of at most n fragments
ServiceBodiesOf(n) ==
    IF n = 0 THEN {""}
    ELSE ServiceBodiesOf(n - 1)
         \cup {b \o ServiceFragments[i] : b \in ServiceBodiesOf(n - 1),
                                          i \in 1..Len(ServiceFragments)}

ServiceEmails ==
    [sender : {"friend@mail.net"}, subject : {"", "Lunch"}, body : ServiceBodiesOf(MaxParts)]

\* the same body under another subject and from another sender
OtherEmail(e) ==
    [sender |-> "help@meeting.org", subject |-> "Urgent call: any question?", body |-> e.body]

\* the EmailProcessor operations and the prompt each sends to generate_response
Operations == {"categorization", "action_extraction", "summarization", "auto_reply"}

FullPrompt(op, p, e) ==
    CASE op = "categorization" -> CategorizePrompt(p, e)
      [] op = "action_extraction" -> ExtractPrompt(p, e)
      [] op = "summarization" -> SummaryPrompt(p, e)
      [] op = "auto_reply" -> ReplyPrompt(p, e)

ServiceInit ==
    /\ file = TextFile(JsonDumpIndent(default_prompts, PromptKeyOrder))
    /\ cache = Cached(default_prompts)
    /\ pm = TRUE
    /\ email \in ServiceEmails
    /\ last = [op |-> "init"]
    /\ inbox = <<>> /\ selected = 0 /\ runs = 0

\* FreeLLMService._extract_actions(email): the tasks of the JSON text
ServiceExtract ==
    /\ last.op = "init"
    /\ last' = [op |-> "llm_extract", text |-> LLM_extract_actions(email),
                ret |-> parse_actions_response(LLM_extract_actions(email))]
    /\ UNCHANGED <<file, cache, pm, email, inbox, selected, runs>>

\* FreeLLMService._draft_reply(email), and of the same body under another
\* subject and sender
ServiceDraft ==
    /\ last.op = "init"
    /\ last' = [op |-> "llm_draft", ret |-> LLM_draft_reply(email),
                other |-> LLM_draft_reply(OtherEmail(email))]
    /\ UNCHANGED <<file, cache, pm, email, inbox, selected, runs>>

\* FreeLLMService.generate_response(full_prompt), the prompt built by an
\* EmailProcessor operation from the stored prompt (the default one, or an
\* empty one)
ServiceGenerate ==
    /\ last.op = "init"
    /\ \E op \in Operations, P \in {default_prompts, BlankPrompts} :
           \E prompt \in {FullPrompt(op, P[op], email)} :
               last' = [op |-> "generate", for |-> op, stored |-> P[op], prompt |-> prompt,
                        ret |-> generate_response(prompt)]
    /\ UNCHANGED <<file, cache, pm, email, inbox, selected, runs>>

ServiceNext == ServiceExtract \/ ServiceDraft \/ ServiceGenerate

ServiceSpec == ServiceInit /\ [][ServiceNext]_vars

(***************************************************************************)
(* Properties of the matchers, checked under Spec                          *)
(***************************************************************************)

\* C1: an email whose subject or body contains "urgent", in any letter case,
\* is categorized Important, whatever action, newsletter or spam words and
\* whatever sender markers it also contains.
C1_UrgentIsImportant ==
    (/\ last.op = "categorize"
     /\ \/ Contains(Lower(Chars(email.subject)), Chars("urgent"))
        \/ Contains(Lower(Chars(email.body)), Chars("urgent")))
    => last.ret = "Important"

\* an upper-case "URGENT" in the subject of an email whose body holds action
\* and spam words and whose sender holds a newsletter marker
C1_Witness ==
    /\ last.op = "categorize"
    /\ email.subject = "URGENT: budget"
    /\ email.body = Fragments[3] \o Fragments[5]
    /\ email.sender = "updates@shop.io"
    /\ last.ret = "Important"

\* C2: the label is one of Important, Newsletter, Spam and To-Do, and it is
\* the label of the first rule that matches, in the order urgency words,
\* action words, newsletter words, spam words (in subject + body), internal
\* sender marker, newsletter sender marker, default Important.  Spam is
\* returned only when a spam word matches and no urgency, action or
\* newsletter word does, and "need" inside "needed" matches.
C2_FirstMatchWins ==
    last.op = "categorize" =>
        LET text == Lower(Chars(email.subject \o " " \o email.body))
            sender == Lower(Chars(email.sender))
            Has(t, words) == \E w \in words : Contains(t, Chars(w))
            urgency == Has(text, {"urgent", "asap", "immediately", "deadline", "important", "critical"})
            action == Has(text, {"please", "need", "request", "action required", "todo", "task",
                                 "required", "must"})
            newsletter == Has(text, {"newsletter", "digest", "weekly update", "monthly report",
                                     "subscription"})
            spam == Has(text, {"promotion", "special offer", "discount", "buy now", "limited time",
                               "click here"})
            internal == Has(sender, {"@company.com", "@corp.com", "manager", "hr@"})
            bulk == Has(sender, {"newsletter@", "digest@", "updates@"})
        IN  /\ last.ret \in {"Important", "Newsletter", "Spam", "To-Do"}
            /\ last.ret = IF urgency THEN "Important"
                          ELSE IF action THEN "To-Do"
                          ELSE IF newsletter THEN "Newsletter"
                          ELSE IF spam THEN "Spam"
                          ELSE IF internal THEN "Important"
                          ELSE IF bulk THEN "Newsletter"
                          ELSE "Important"
            /\ (last.ret = "Spam" => spam /\ ~urgency /\ ~action /\ ~newsletter)
            /\ (Contains(text, Chars("needed")) /\ ~urgency => last.ret = "To-Do")

\* spam words alone, from an internal sender: the spam rule comes first
C2_Witness ==
    /\ last.op = "categorize"
    /\ email.subject = "Lunch"
    /\ email.body = Fragments[5]
    /\ email.sender = "hr@company.com"
    /\ last.ret = "Spam"

\* C3: for every email body EmailProcessor.extract_actions returns a task
\* list of at least 1 and at most 3 tasks.
C3_OneToThreeTasks ==
    last.op = "extract_actions" =>
        /\ ~last.ret.raised
        /\ Len(last.ret.val) >= 1
        /\ Len(last.ret.val) <= 3

\* C4: for every email body in which none of the three sweeps has a match,
\* EmailProcessor.extract_actions returns exactly one task, the fallback
\* task, with priority medium and an empty deadline.
C4_FallbackTask ==
    (/\ last.op = "extract_actions"
     /\ please_matches(Chars(email.body)) = <<>>
     /\ need_matches(Chars(email.body)) = <<>>
     /\ bullet_matches(Chars(email.body)) = <<>>)
    => /\ ~last.ret.raised
       /\ Len(last.ret.val) = 1
       /\ last.ret.val[1].task \in {"Review this email for important information",
                                    "Review this email"}
       /\ last.ret.val[1].priority = "medium"
       /\ last.ret.val[1].deadline = ""

\* C5: for the body "Please submit the report by Friday. This is urgent."
\* the extractor returns a task whose priority is high and whose deadline
\* contains "Friday".
C5_FridayDeadline ==
    (/\ last.op \in {"llm_extract", "extract_actions"}
     /\ email.body = "Please submit the report by Friday. This is urgent.")
    => /\ ~last.ret.raised
       /\ \E i \in 1..Len(last.ret.val) :
              /\ last.ret.val[i].priority = "high"
              /\ Contains(Chars(last.ret.val[i].deadline), Chars("Friday"))

C6_RoundTrip ==
    [][/\ (last.op = "save" /\ last.ok /\ DOMAIN last.arg = PromptKeys /\ last'.op = "load")
          => /\ last'.ok
             /\ last'.ret = last.arg
             /\ \A k \in PromptKeys : get_prompt(file', cache', k).ret = last.arg[k]
       /\ (last.op = "save" /\ last.ok /\ last'.op = "get")
          => last'.ret = DictGet(last.arg, last'.key)
       /\ (last.op = "load" /\ last.ok /\ last'.op = "get")
          => last'.ret = DictGet(last.ret, last'.key)]_vars

\* load() right after a successful save of the prompt set with quotes,
\* backslashes, line breaks and characters outside ASCII
C6_Witness ==
    /\ last.op = "load"
    /\ last.after = "save"
    /\ last.ok
    /\ last.ret = QuotedPrompts
    /\ cache = Cached(QuotedPrompts)

\* C7: from any reachable state, a reset_to_defaults() that reports success
\* followed by load() returns the four default strings, and neither the file
\* nor the cache keeps anything else.
C7_ResetThenLoad ==
    [][(last.op = "reset" /\ last.ok /\ last'.op = "load")
       => /\ last'.ok
          /\ last'.ret = default_prompts
          /\ cache' = Cached(default_prompts)
          /\ JsonLoads(file'.text) = [ok |-> TRUE, val |-> default_prompts]]_vars

\* load() right after a successful reset that followed two earlier calls
C7_Witness ==
    /\ last.op = "load"
    /\ last.after = "reset"
    /\ last.n = 4
    /\ last.ret = default_prompts

\* C8: after a save, update or reset the cached set equals the persisted
\* set or, the write having failed, the set that was cached before the
\* call; and a get after a failed update does not return the value that was
\* not persisted.
C8_CacheConsistent ==
    [][/\ last'.op \in {"save", "update", "reset"}
          => \/ /\ last'.ok
                /\ file'.exists
                /\ JsonLoads(file'.text) = [ok |-> TRUE, val |-> cache'.prompts]
             \/ ~last'.ok /\ cache' = cache
       /\ (last.op = "update" /\ ~last.ok /\ last'.op = "get" /\ last'.key = last.key)
          => \/ last'.ret # last.arg[last.key]
             \/ /\ file.exists
                /\ JsonLoads(file.text).ok
                /\ DictGet(JsonLoads(file.text).val, last.key) = last.arg[last.key]]_vars

\* C9: when the file is missing or corrupt, load() reports an error, returns
\* an empty mapping, does not raise and changes neither the file nor the
\* cached copy; the file is written only by a construction that finds no
\* file, by save, update and reset, and the defaults only by such a
\* construction and by reset.
C9_LoadFailure ==
    [][/\ (last'.op = "load" /\ (~file.exists \/ ~JsonLoads(file.text).ok))
          => /\ last'.error
             /\ ~last'.raised
             /\ last'.ret = EmptyMap
             /\ file' = file
             /\ cache' = cache
       /\ (file' # file)
          => /\ last'.op \in {"construct", "save", "update", "reset", "remove"}
             /\ last'.op = "construct" => ~file.exists
       /\ (file' # file /\ file' = TextFile(JsonDumpIndent(default_prompts, PromptKeyOrder)))
          => last'.op \in {"construct", "reset"}]_vars

\* a load() that fails on the file a failed write truncated, the cache
\* keeping the prompt set it held
C9_Witness ==
    /\ last.op = "load"
    /\ last.error
    /\ last.ret = EmptyMap
    /\ file.exists
    /\ ~JsonLoads(file.text).ok
    /\ cache.set

\* C11: after a load() or a reset_to_defaults() that reports success, reached
\* by any sequence of store operations, the prompt set returned (by load) and
\* the prompt set cached contain the four keys categorization,
\* action_extraction, summarization and auto_reply.
C11_FourKeysPresent ==
    [][/\ (last'.op = "load" /\ last'.ok)
          => /\ PromptKeys \subseteq DOMAIN last'.ret
             /\ cache'.set
             /\ PromptKeys \subseteq DOMAIN cache'.prompts
       /\ (last'.op = "reset" /\ last'.ok)
          => /\ cache'.set
             /\ PromptKeys \subseteq DOMAIN cache'.prompts]_vars

\* C10: get(key) returns the value the cache holds for key, the empty
\* string when the cache holds none, and does not raise.
C10_GetReturnsCached ==
    [][last'.op = "get"
       => /\ ~last'.raised
          /\ last'.ret = DictGet(IF cache.set THEN cache.prompts ELSE EmptyMap, last'.key)]_vars

(***************************************************************************)
(* Properties of the EmailProcessor operations and of the Summarizer,      *)
(* checked under Spec                                                      *)
(***************************************************************************)

\* C14: each EmailProcessor operation (_categorize_email, extract_actions,
\* summarize_email, draft_reply) returns, whatever prompt set is stored, the
\* result it returns for the same email with the default prompt set stored.
C14_PromptsDoNotMatter ==
    /\ last.op = "categorize_email"
           => last.ret = categorize_email(default_prompts.categorization, email)
    /\ last.op = "extract_actions"
           => last.ret = extract_actions(default_prompts.action_extraction, email)
    /\ last.op = "summarize_email"
           => last.ret = summarize_email(default_prompts.summarization, email)
    /\ last.op = "draft_reply"
           => last.ret = draft_reply(default_prompts.auto_reply, email)

\* C20: the Summarizer's output is "This email about '<subject>' involves
\* <topics>. " when a topic lexicon matches the body, <topics> being the
\* phrases of the matching topics joined by ", " in the order
\* meeting/scheduling, document/review, project/task, question/help, and
\* "This email '<subject>' requires your attention. " when none matches,
\* followed by the urgency sentence when the body holds an urgency word and
\* by the please-review sentence otherwise; a second call on the same email
\* returns the same text.
C20_SummaryTemplate ==
    last.op = "summarize" =>
        LET body == Lower(Chars(email.body))
            Has(words) == \E w \in words : Contains(body, Chars(w))
            Phrase(words, phrase) == IF Has(words) THEN phrase ELSE ""
            Join(a, b) == IF a = "" THEN b ELSE IF b = "" THEN a ELSE a \o ", " \o b
            topics ==
                Join(Join(Join(Phrase({"meeting", "call", "discuss", "schedule"},
                                      "scheduling or discussion"),
                               Phrase({"report", "document", "review", "submit"},
                                      "document review or submission")),
                          Phrase({"project", "task", "assignment", "work"},
                                 "project work or tasks")),
                     Phrase({"question", "query", "advice", "help"},
                            "questions or advice needed"))
            first == IF topics # ""
                     THEN "This email about '" \o email.subject \o "' involves " \o topics \o ". "
                     ELSE "This email '" \o email.subject \o "' requires your attention. "
            second == IF Has({"urgent", "asap", "immediately"})
                      THEN "It appears to be time-sensitive and should be addressed promptly."
                      ELSE "Please review it when you have time."
        IN  /\ last.ret = first \o second
            /\ last.again = last.ret

\* a body in which the meeting, project and question lexicons match and the
\* document lexicon does not: three topics, in the lexicons' order
C20_Witness ==
    /\ last.op = "summarize"
    /\ email.subject = "Lunch"
    /\ email.body = Fragments[3] \o Fragments[9]
    /\ last.ret = "This email about 'Lunch' involves scheduling or discussion, project work or tasks, questions or advice needed. Please review it when you have time."

(***************************************************************************)
(* Properties of the response parser, checked under ParseSpec              *)
(***************************************************************************)

\* C13: _parse_actions_response and _extract_actions_from_text do not raise,
\* whatever the response: a response without a JSON object, or with a
\* malformed one, goes to the line patterns, which return a task list of at
\* least one task for every text.
C13_ParsingNeverRaises ==
    last.op \in {"parse", "from_text"} =>
        /\ ~last.ret.raised
        /\ Len(last.ret.val) >= 1

(***************************************************************************)
(* Properties of the Email Agent and of batch processing, checked under    *)
(* AgentSpec                                                               *)
(***************************************************************************)
\* C12: a failure while an email is processed does not leave
\* process_single_email: the email comes back with category "Error", no
\* actions and the summary "Failed to process email", its other fields as
\* they were; process_batch_emails goes on with the remaining emails and
\* returns one entry per input email, in input order.  (Every email's
\* processing fails, at the latest where the summary is generated.)
C12_FailuresContained ==
    [][last'.op = "batch" =>
          /\ ~last'.raised
          /\ Len(last'.ret) = Len(inbox)
          /\ inbox' = last'.ret
          /\ \A i \in 1..Len(inbox) :
                 /\ last'.ret[i]["category"] = "Error"
                 /\ last'.ret[i]["actions"] = <<>>
                 /\ last'.ret[i]["summary"] = "Failed to process email"
                 /\ \A k \in {"id", "sender", "subject", "body"} :
                        last'.ret[i][k] = inbox[i][k]]_vars

\* a batch of ten emails, categorized Important and To-Do before, was processed
C12_Witness ==
    /\ last.op = "batch"
    /\ ~last.raised
    /\ Len(last.ret) = MaxInbox
    /\ \A i \in 1..MaxInbox : last.ret[i]["id"] = i /\ last.ret[i]["category"] = "Error"
    /\ last.ret[2]["body"] = MailBodies[2]

\* C15: the router takes the first step, in the order summarize, task/action,
\* reply (each only with a selected email), urgency, inbox, search, general,
\* whose words occur in the lower-cased query, and the response is that
\* step's alone; without a selected email none of the first three is taken.
C15_FirstMatchWins ==
    last.op = "query" =>
        LET Has(words) == \E w \in words : Contains(Lower(Chars(last.query)), Chars(w))
            Begins(h) == MatchAt(Chars(last.ret), Chars(h), 1)
            names == <<"summary", "action", "reply", "urgent", "inbox", "search", "general">>
            matches ==
                << selected # 0 /\ Has({"summarize", "summary", "overview"}),
                   selected # 0 /\ Has({"task", "action", "todo", "do"}),
                   selected # 0 /\ Has({"reply", "respond", "draft"}),
                   Has({"urgent", "important", "priority"}),
                   Has({"all", "inbox", "emails"}),
                   Has({"find", "search", "look for"}),
                   TRUE >>
            heads ==
                << {"**Summary of '"},
                   {"**Actions from '", "No specific actions found in '"},
                   {"**Draft Reply for '"},
                   {"**Urgent/Important Emails:**", "No urgent emails found!"},
                   {"**Inbox Overview:**"},
                   {"**Found ", "No emails found matching '"},
                   {"**Regarding '", "I can help you analyze your emails!"} >>
        IN  /\ \E k \in 1..7 :
                /\ last.step = names[k]
                /\ matches[k]
                /\ \A j \in 1..(k - 1) : ~matches[j]
                /\ ~last.raised => \E h \in heads[k] : Begins(h)
            /\ selected = 0 => last.step \notin {"summary", "action", "reply"}

\* with the first email selected, a query with a summarize word and two reply
\* words was answered by the summary
C15_Witness ==
    /\ last.op = "query"
    /\ last.query = "Give me a summary and draft a reply"
    /\ selected = 1
    /\ last.step = "summary"
    /\ MatchAt(Chars(last.ret), Chars("**Summary of 'Lunch 1':**"), 1)

\* C16: with the default prompt set stored, the response to a query taken by
\* the summarize step is the Summarizer's text for the selected email (topic
\* sentence and urgency or please-review sentence) after the line
\* **Summary of '<subject>':** and an empty line.
C16_SummaryOfSelected ==
    (last.op = "query" /\ last.step = "summary" /\ cache = Cached(default_prompts)) =>
        last.ret = "**Summary of '" \o inbox[selected].subject \o "':**\n\n"
                   \o LLM_summarize_email(inbox[selected])

\* C17: a task/action query on the selected email leaves the email carrying
\* the extracted actions, and runs the Action Extractor only if the email
\* carried none (no actions field, or the empty list); a task/action query
\* that follows another one on the same email does not run the extractor
\* again, returns the same actions and changes nothing.
C17_ExtractorRunsOnce ==
    [][(last'.op = "query" /\ last'.step = "action") =>
          /\ ~last'.raised
          /\ HasActions(inbox'[selected])
          /\ last'.ran => (~HasActions(inbox[selected]) /\ runs' = runs + 1)
          /\ (last.op = "query" /\ last.step = "action") =>
                 /\ ~last'.ran
                 /\ runs' = runs
                 /\ last'.ret = last.ret
                 /\ inbox' = inbox]_vars

\* C18: the response of the urgency step has one entry for each of the first
\* 8 emails of the collection whose category is Important or To-Do, in
\* collection order, and no other entry; "What's urgent in my inbox?" is
\* taken by this step with and without a selected email.
C18_UrgentListing ==
    /\ (last.op = "query" /\ last.query = "What's urgent in my inbox?") => last.step = "urgent"
    /\ (last.op = "query" /\ last.step = "urgent") =>
        LET IsUrgent(i) == inbox[i]["category"] \in {"Important", "To-Do"}
            Listed(i) == IsUrgent(i) /\ Cardinality({j \in 1..i : IsUrgent(j)}) <= 8
            Entry(i) == Chars("<U+2022> **" \o inbox[i]["subject"] \o "** (From: "
                              \o inbox[i]["sender"] \o ")\n")
        IN  \A text \in {Chars(last.ret)} :
            \A pos \in {[i \in 1..Len(inbox) |->
                            FirstIn(1, Len(text), LAMBDA p : MatchAt(text, Entry(i), p))]} :
                /\ \A i \in 1..Len(inbox) : Listed(i) <=> pos[i] # 0
                /\ \A i, j \in 1..Len(inbox) :
                       (Listed(i) /\ Listed(j) /\ i < j) => pos[i] < pos[j]
                /\ Cardinality({p \in 1..Len(text) : MatchAt(text, Chars("<U+2022>"), p)})
                       = Cardinality({i \in 1..Len(inbox) : Listed(i)})
                /\ (\A i \in 1..Len(inbox) : ~IsUrgent(i))
                       <=> last.ret = "No urgent emails found! Your inbox looks good. <U+1F389>"

\* the collection of five emails, two of them Important and one To-Do, the
\* second (a Newsletter) selected: the three are listed
C18_Witness ==
    /\ last.op = "query"
    /\ last.query = "What's urgent in my inbox?"
    /\ selected = 2
    /\ Len(inbox) = 5
    /\ [i \in 1..5 |-> inbox[i]["category"]]
           = <<"Important", "Newsletter", "To-Do", "Important", "Spam">>
    /\ last.ret = "**Urgent/Important Emails:**\n\n"
                  \o "<U+2022> **Lunch 1** (From: friend@mail.net)\n\n"
                  \o "<U+2022> **Lunch 3** (From: friend@mail.net)\n\n"
                  \o "<U+2022> **Lunch 4** (From: friend@mail.net)\n\n"

\* C19: the response of the inbox step gives, for Important, To-Do,
\* Newsletter and Spam, the number of emails of the collection with that
\* category, and as total the size of the collection; the advice on several
\* action items is given exactly when more than 3 emails are To-Do.
C19_InboxCounts ==
    (last.op = "query" /\ last.step = "inbox") =>
        LET Number(label) == Cardinality({i \in 1..Len(inbox) : inbox[i]["category"] = label})
        IN  \A text \in {Chars(last.ret)} :
                /\ Contains(text, Chars(" Total Emails: " \o IntStr(Len(inbox)) \o "\n"))
                /\ \A label \in {"Important", "To-Do", "Newsletter", "Spam"} :
                       Contains(text, Chars(" " \o label \o ": " \o IntStr(Number(label)) \o "\n"))
                /\ Contains(text, Chars("You have several action items."))
                       <=> Number("To-Do") > 3

\* C28: with the default prompts stored, batch processing leaves every email
\* with the classifier's label as category (Important, Newsletter, Spam or
\* To-Do, never "Error"), with the extractor's tasks as actions if the label
\* is To-Do and the empty list otherwise, and with the summarizer's text as
\* summary.
C28_NormalPath ==
    [][(last'.op = "batch" /\ cache = Cached(default_prompts)) =>
          /\ ~last'.raised
          /\ Len(last'.ret) = Len(inbox)
          /\ \A i \in 1..Len(inbox) :
                 /\ last'.ret[i]["category"] \in {"Important", "Newsletter", "Spam", "To-Do"}
                 /\ last'.ret[i]["category"]
                        = categorize_email(default_prompts.categorization, inbox[i])
                 /\ last'.ret[i]["actions"]
                        = IF last'.ret[i]["category"] = "To-Do"
                          THEN extract_actions(default_prompts.action_extraction, inbox[i]).val
                          ELSE <<>>
                 /\ last'.ret[i]["summary"]
                        = summarize_email(default_prompts.summarization, inbox[i])]_vars

\* C30: a query leaves the collection as long as it was and every field of
\* every email but actions as it was; an email is changed only if it is the
\* selected one, the step is the task/action step and it had no non-empty
\* actions.  With no email selected nothing is changed, no operation of the
\* processor or of the service that reads an email is called, and a query
\* without a word of the urgency, inbox or search steps gets the static
\* guidance text.
C30_RouterFrame ==
    [][last'.op = "query" =>
          LET Has(words) == \E w \in words : Contains(Lower(Chars(last'.query)), Chars(w))
              Kept(before, after) ==
                  /\ DOMAIN after \ {"actions"} = DOMAIN before \ {"actions"}
                  /\ \A k \in DOMAIN before \ {"actions"} : after[k] = before[k]
                  /\ "actions" \in DOMAIN before => "actions" \in DOMAIN after
          IN  /\ Len(inbox') = Len(inbox)
              /\ \A i \in 1..Len(inbox) :
                     /\ Kept(inbox[i], inbox'[i])
                     /\ inbox'[i] # inbox[i] =>
                            /\ i = selected
                            /\ last'.step = "action"
                            /\ "actions" \in DOMAIN inbox[i] => inbox[i]["actions"] = <<>>
              /\ selected = 0 =>
                     /\ inbox' = inbox
                     /\ last'.called \subseteq {"get_email_stats"}
                     /\ ~Has({"urgent", "important", "priority", "all", "inbox", "emails",
                              "find", "search", "look for"}) =>
                            last'.ret = "I can help you analyze your emails! Please load your inbox first or select a specific email to discuss."]_vars

\* a task query has stored the actions of the first email, which had none;
\* its other fields and the second email are as they were built
C30_Witness ==
    /\ last.op = "query"
    /\ last.step = "action"
    /\ last.ran
    /\ selected = 1
    /\ Len(inbox) = 5
    /\ inbox[1]["actions"] # <<>>
    /\ [k \in {"id", "subject", "body", "read", "category"} |-> inbox[1][k]]
           = [id |-> 1, subject |-> "Lunch 1", body |-> "hello team", read |-> FALSE,
              category |-> "Important"]
    /\ "summary" \notin DOMAIN inbox[1]
    /\ "actions" \notin DOMAIN inbox[2]

(***************************************************************************)
(* Properties of FreeLLMService, checked under ServiceSpec                 *)
(***************************************************************************)
\* C21: the Reply Drafter returns one of the four fixed templates: the
\* first, in the order scheduling, question, urgency, of which a word
\* occurs in the lower-cased body, the generic one if none does; the same
\* body under another subject and from another sender gets the same text.
C21_ReplyTemplates ==
    last.op = "llm_draft" =>
        LET Has(words) == \E w \in words : Contains(Lower(Chars(email.body)), Chars(w))
            matches == << Has({"meeting", "schedule", "call"}),
                          Has({"question", "help", "advice"}),
                          Has({"urgent", "asap", "immediately"}),
                          TRUE >>
            opening == << "Thank you for reaching out about scheduling. \n\n",
                          "Thank you for your question.\n\n",
                          "Thank you for your urgent message.\n\n",
                          "Thank you for your email.\n\n" >>
        IN  /\ last.ret \in {SchedulingReply, QuestionReply, UrgentReply, GenericReply}
            /\ \E k \in 1..4 :
                   /\ matches[k]
                   /\ \A j \in 1..(k - 1) : ~matches[j]
                   /\ MatchAt(Chars(last.ret), Chars(opening[k]), 1)
            /\ last.other = last.ret

\* a body with a scheduling word, an urgency word and two question words got
\* the scheduling template
C21_Witness ==
    /\ last.op = "llm_draft"
    /\ email.subject = "Lunch"
    /\ email.body = "- bring notes.\n* book the meeting asap!\nAny question or advice? "
    /\ last.ret = SchedulingReply

\* C22: the tasks returned are, in this order, the first na matches of the
\* "please" sweep, the first nb of the "need to/should/must" sweep and the
\* first nc of the bullet sweep, each sweep in order of occurrence, where
\* na is the number of "please" matches or 3 if there are more, nb what is
\* left of 3 or the number of clause matches if fewer, and nc likewise (the
\* one fallback task if no sweep has a match).
C22_SweepOrder ==
    last.op = "llm_extract" =>
        LET Least(m, n) == IF m < n THEN m ELSE n
            Text(match) == Str(clean_task_text(match))
            Ordered(tasks, a, b, c, na, nb, nc) ==
                /\ Len(tasks) = na + nb + nc
                /\ \A k \in 1..na : tasks[k].task = Text(a[k])
                /\ \A k \in 1..nb : tasks[na + k].task = Text(b[k])
                /\ \A k \in 1..nc : tasks[na + nb + k].task = Text(c[k])
            Swept(tasks, a, b, c) ==
                IF Len(a) + Len(b) + Len(c) = 0 THEN tasks = <<FallbackTask>>
                ELSE Ordered(tasks, a, b, c,
                             Least(3, Len(a)),
                             Least(3 - Least(3, Len(a)), Len(b)),
                             Least(3 - Least(3, Len(a) + Len(b)), Len(c)))
        IN  /\ ~last.ret.raised
            /\ \A t \in {Chars(email.body)} :
                   Swept(last.ret.val, please_matches(t), need_matches(t), bullet_matches(t))

\* three "please" clauses and a "must" clause: the three tasks returned are
\* the "please" clauses
C22_Witness ==
    /\ last.op = "llm_extract"
    /\ email.body = "Please call Bob. Please send it! Please wait? You must reply tomorrow, it is urgent. "
    /\ [k \in 1..Len(last.ret.val) |-> last.ret.val[k].task] = <<"Call Bob.", "Send it!", "Wait?">>

\* C23: every task of the "please" and "need to/should/must" sweeps has as
\* deadline the text (group 1 if the pattern has one) matched in the whole
\* body by the first of the eight patterns, in their fixed order, that
\* matches anywhere in it, title-cased; the empty string if none matches.
C23_FirstDeadlinePattern ==
    last.op = "llm_extract" =>
        LET Least(m, n) == IF m < n THEN m ELSE n
            Given(t, m) == Str(Title(IF m.g1 > 0 THEN SubSeq(t, m.g1, m.g2)
                                     ELSE SubSeq(t, m.from, m.to)))
            Expected(t, found, deadline) ==
                \/ /\ \A n \in 1..8 : found[n].from = 0
                   /\ deadline = ""
                \/ \E n \in 1..8 :
                       /\ found[n].from > 0
                       /\ \A k \in 1..(n - 1) : found[k].from = 0
                       /\ deadline = Given(t, found[n])
        IN  \A t \in {Chars(email.body)} :
            \A found \in {[n \in 1..8 |-> Search(t, deadline_patterns[n], TRUE)]} :
                \A k \in 1..Least(Len(last.ret.val),
                                  Len(please_matches(t)) + Len(need_matches(t))) :
                    Expected(t, found, last.ret.val[k].deadline)

\* "by EOD" stands before "tomorrow" in the body, and "tomorrow", the earlier
\* pattern, gives the deadline of both tasks
C23_Witness ==
    /\ last.op = "llm_extract"
    /\ email.body = "Please file it by EOD. You must reply tomorrow, it is urgent. "
    /\ Len(last.ret.val) = 2
    /\ last.ret.val[1].deadline = "Tomorrow"
    /\ last.ret.val[2].deadline = "Tomorrow"

\* C24: every task of the "please" and "need to/should/must" sweeps has the
\* priority of the whole body: high if the lower-cased body contains
\* "urgent", "asap", "immediately" or "critical", else low if it contains
\* "when possible", "at your convenience" or "no rush", else medium; every
\* task of the bullet sweep has priority medium and an empty deadline.
C24_Priorities ==
    last.op = "llm_extract" =>
        LET Least(m, n) == IF m < n THEN m ELSE n
            Has(words) == \E w \in words : Contains(Lower(Chars(email.body)), Chars(w))
            OfBody ==
                IF Has({"urgent", "asap", "immediately", "critical"}) THEN "high"
                ELSE IF Has({"when possible", "at your convenience", "no rush"}) THEN "low"
                ELSE "medium"
        IN  \A t \in {Chars(email.body)} :
            \A clauses \in {Least(Len(last.ret.val),
                                  Len(please_matches(t)) + Len(need_matches(t)))} :
                /\ \A k \in 1..clauses : last.ret.val[k].priority = OfBody
                /\ \A k \in (clauses + 1)..Len(last.ret.val) :
                       /\ last.ret.val[k].priority = "medium"
                       /\ last.ret.val[k].deadline = ""

\* "no rush" and "urgent" in one body: both clause tasks are high
C24_Witness ==
    /\ last.op = "llm_extract"
    /\ email.body = "We need to meet next week, no rush. You must reply tomorrow, it is urgent. "
    /\ [k \in 1..Len(last.ret.val) |-> last.ret.val[k].priority] = <<"high", "high">>

(***************************************************************************)
(* Further properties of the prompt store, checked under StoreSpec         *)
(***************************************************************************)
\* C25: PromptManager() leaves a file that exists as it is; when there is no
\* file and the write does not fail, it writes the text reset_to_defaults
\* writes, the four default prompts, and its own load, the first read,
\* succeeds and returns the defaults, as does a load after it.
C25_Initialization ==
    [][last'.op = "construct" =>
          IF file.exists THEN file' = file
          ELSE last'.fault = "none" =>
                   /\ file' = reset_to_defaults(file, cache, "none").file
                   /\ JsonLoads(file'.text) = [ok |-> TRUE, val |-> default_prompts]
                   /\ last'.ok
                   /\ last'.ret = default_prompts
                   /\ cache' = Cached(default_prompts)
                   /\ load_prompts(file', cache').ret = default_prompts
                   /\ ~load_prompts(file', cache').error]_vars

\* the file had been removed, and a PromptManager was constructed
C25_Witness ==
    /\ last.op = "construct"
    /\ last.after = "remove"
    /\ last.ok
    /\ last.ret = default_prompts
    /\ file.exists
    /\ JsonLoads(file.text).val = default_prompts

\* C26: after update(key, value) that reports success, the persisted set
\* and the cached set are both the set before the call (the cached set, or
\* the persisted one when nothing is cached) with key mapped to value: every
\* other key has the value it had, none is removed.
C26_UpdateOneEntry ==
    [][(last'.op = "update" /\ last'.ok) =>
          LET Persisted == IF file.exists /\ JsonLoads(file.text).ok
                           THEN JsonLoads(file.text).val ELSE EmptyMap
              Before == IF cache.set THEN cache.prompts ELSE Persisted
              After == [k \in DOMAIN Before \cup {last'.key} |->
                           IF k = last'.key THEN last'.arg[k] ELSE Before[k]]
          IN  /\ file'.exists
              /\ JsonLoads(file'.text) = [ok |-> TRUE, val |-> After]
              /\ cache' = Cached(After)]_vars

\* C29: generate_response answers with the first handler, in the order
\* categorize, extract+action, summarize, reply/draft, whose word(s) occur in
\* the lower-cased prompt, with the fixed acknowledgement if none does; and
\* for the prompt an EmailProcessor operation builds from its default stored
\* prompt that handler is the operation's own, whatever the email says.
C29_OwnHandler ==
    last.op = "generate" =>
        LET Has(w) == Contains(Lower(Chars(last.prompt)), Chars(w))
            Begins(h) == MatchAt(Chars(last.ret), Chars(h), 1)
            matches == << Has("categorize"),
                          Has("extract") /\ Has("action"),
                          Has("summarize"),
                          Has("reply") \/ Has("draft"),
                          TRUE >>
            answers == << last.ret \in {"Important", "Newsletter", "Spam", "To-Do"},
                          Begins("{\"tasks\": [{\"task\": "),
                          Begins("This email "),
                          last.ret \in {SchedulingReply, QuestionReply, UrgentReply, GenericReply},
                          last.ret = "I've processed your email request successfully." >>
            own == [categorization |-> 1, action_extraction |-> 2,
                    summarization |-> 3, auto_reply |-> 4]
        IN  \E k \in 1..5 :
                /\ matches[k]
                /\ \A j \in 1..(k - 1) : ~matches[j]
                /\ answers[k]
                /\ last.stored = default_prompts[last["for"]] => k = own[last["for"]]

====
